---- MODULE Spec2Model ----
(***************************************************************************)
(* Model of the analysis engine of the crypto pattern scanner:             *)
(* SupportResistanceAnalyzer, SmartMoneyAnalyzer, ElliottWaveAnalyzer and  *)
(* PatternAnalyzer, applied to a candle series.                            *)
(*                                                                         *)
(* Numbers.  Candle prices and volumes are integers; a price is counted in *)
(* hundredths (950 is 9.50).  Every value the code derives by division is  *)
(* an exact rational [n, d] with d > 0 in lowest terms, so a comparison    *)
(* such as priceDiff <= tolerance is decided exactly; IEEE rounding of the *)
(* last bit is not modelled.  An exception raised by the code is the       *)
(* result value TypeError.                                                 *)
(***************************************************************************)
EXTENDS Integers, Sequences, FiniteSets, TLC

VARIABLES data, ret, app

vars == <<data, ret, app>>

(***************************************************************************)
(* Bounds of the model.                                                    *)
(***************************************************************************)
\* longest series built candle by candle
MaxLen == 10
\* open time of the first candle and distance between candles (k[0] is an
\* epoch time in the program, far above the series length)
TimeOrigin == 1000
TimeStep == 60
\* largest touch count given to a level whose strength is computed alone
MaxTouches == 3

(***************************************************************************)
(* Program constants.                                                      *)
(***************************************************************************)
lookback == 5
minTouchCount == 2

(***************************************************************************)
(* JavaScript Number arithmetic, as exact rationals.                       *)
(***************************************************************************)
Abs(x) == IF x < 0 THEN -x ELSE x

\* Math.min and Math.max of two integers
Least(x, y) == IF x <= y THEN x ELSE y

Greatest(x, y) == IF x <= y THEN y ELSE x

RECURSIVE Gcd(_, _)
Gcd(a, b) == IF b = 0 THEN a ELSE Gcd(b, a % b)

Rat(n, d) ==
  LET g == Gcd(Abs(n), d)
  IN  [n |-> n \div g, d |-> d \div g]

RInt(x) == [n |-> x, d |-> 1]

RAdd(a, b) == Rat(a.n * b.d + b.n * a.d, a.d * b.d)

RSub(a, b) == Rat(a.n * b.d - b.n * a.d, a.d * b.d)

RMul(a, b) == Rat(a.n * b.n, a.d * b.d)

\* a / b for b # 0
RDiv(a, b) ==
  IF b.n > 0 THEN Rat(a.n * b.d, a.d * b.n)
             ELSE Rat(-(a.n * b.d), -(a.d * b.n))

RAbs(a) == [n |-> Abs(a.n), d |-> a.d]

RLeq(a, b) == a.n * b.d <= b.n * a.d

RLt(a, b) == a.n * b.d < b.n * a.d

RMax(a, b) == IF RLeq(a, b) THEN b ELSE a

\* Math.abs(x - ref) / ref <= tolerance and ... < tolerance, for ref > 0.
\* With x = a/b, ref = c/d and tolerance = p/q the test is
\* |a*d - c*b| * q <= p*c*b, decided here as |a*d - c*b| <= (p*c*b) div q
RelDiffLeq(x, ref, tolerance) ==
  Abs(x.n * ref.d - ref.n * x.d) <= (tolerance.n * ref.n * x.d) \div tolerance.d

RelDiffLt(x, ref, tolerance) ==
  Abs(x.n * ref.d - ref.n * x.d)
    <= (tolerance.n * ref.n * x.d - 1) \div tolerance.d

\* Math.floor
RFloor(a) == a.n \div a.d

\* Math.round: the integer nearest to a, halves rounded up
RRound(a) == (2 * a.n + a.d) \div (2 * a.d)

priceTolerancePercent == Rat(1, 2)

volumeWeightFactor == Rat(3, 10)

(***************************************************************************)
(* Arrays.  The code indexes from 0; At and Slice keep its indices.        *)
(***************************************************************************)
At(arr, i) == arr[i + 1]

\* arr.slice(from, to) for from >= 0 and to >= 0
Slice(arr, from, to) ==
  IF Least(to, Len(arr)) <= from THEN <<>>
  ELSE SubSeq(arr, from + 1, Least(to, Len(arr)))

\* arr.slice(-k) for an integer k >= 0 (slice(-0) is slice(0): the whole array)
Last(arr, k) ==
  IF k = 0 \/ k >= Len(arr) THEN arr
  ELSE SubSeq(arr, Len(arr) - k + 1, Len(arr))

RECURSIVE Ascending(_)
\* the elements of a set of integers in increasing order: the order in which
\* a for loop over i visits them
Ascending(S) ==
  IF S = {} THEN <<>>
  ELSE LET m == CHOOSE x \in S : \A y \in S : x <= y
       IN  <<m>> \o Ascending(S \ {m})

\* the one element of a one-element set.  A value bound as the element of a
\* set is computed once, as the code computes a const, however often it is read
Only(S) == CHOOSE x \in S : TRUE

\* arr.sort(compare), a stable sort: keys[k] is the number compare orders
\* arr[k] by, smallest first.  An element comes after those of a smaller key
\* and after the earlier ones of the same key.
Sorted(arr, keys) ==
  LET placeOf(ks) ==
        [k \in 1..Len(ks) |->
           1 + Cardinality({j \in 1..Len(ks) :
                              \/ RLt(ks[j], ks[k])
                              \/ j < k /\ ~RLt(ks[k], ks[j])})]
      placed(xs, place) ==
        [p \in 1..Len(xs) |-> xs[CHOOSE k \in 1..Len(xs) : place[k] = p]]
  IN  Only({placed(xs, place) :
              xs \in {arr}, place \in {placeOf(ks) : ks \in {keys}}})

Range(arr) == {arr[k] : k \in 1..Len(arr)}

\* Math.max(...xs) and Math.min(...xs) of a non-empty list of integers
MaxOf(xs) == CHOOSE x \in Range(xs) : \A y \in Range(xs) : y <= x

MinOf(xs) == CHOOSE x \in Range(xs) : \A y \in Range(xs) : x <= y

RECURSIVE SumOf(_)
SumOf(xs) == IF xs = <<>> THEN 0 ELSE xs[1] + SumOf(Tail(xs))

RECURSIVE RSumOf(_)
RSumOf(xs) == IF xs = <<>> THEN RInt(0) ELSE RAdd(xs[1], RSumOf(Tail(xs)))

Highs(arr) == [k \in 1..Len(arr) |-> arr[k].high]

Lows(arr) == [k \in 1..Len(arr) |-> arr[k].low]

Closes(arr) == [k \in 1..Len(arr) |-> arr[k].close]

Volumes(arr) == [k \in 1..Len(arr) |-> arr[k].volume]

\* the value a handler leaves when it raises
TypeError == [threw |-> "TypeError"]

\* null
NULL == [type |-> "null"]

(***************************************************************************)
(* Swing/Pivot extraction.                                                 *)
(***************************************************************************)
\* the indices i the loops `for (i = lookback; i < data.length - lookback; i++)` visit
\* the loop running to the end of the series: `i < data.length`
CentersToEnd(arr) == lookback .. (Len(arr) - 1)

Centers(arr) == lookback .. (Len(arr) - lookback - 1)

segment(arr, i) == Slice(arr, i - lookback, i + lookback + 1)

PivotAt(arr, i, p) ==
  [index |-> i, price |-> RInt(p), time |-> At(arr, i).time,
   volume |-> At(arr, i).volume]

findPivotPoints(arr) ==
  LET isHigh(i) == \A idx \in 0..(Len(segment(arr, i)) - 1) :
                      idx = lookback
                      \/ At(segment(arr, i), idx).high
                           <= At(segment(arr, i), lookback).high
      isLow(i) == \A idx \in 0..(Len(segment(arr, i)) - 1) :
                      idx = lookback
                      \/ At(segment(arr, i), idx).low
                           >= At(segment(arr, i), lookback).low
      hi == Ascending({i \in Centers(arr) : isHigh(i)})
      lo == Ascending({i \in Centers(arr) : isLow(i)})
  IN  [highs |-> [k \in 1..Len(hi) |-> PivotAt(arr, hi[k], At(arr, hi[k]).high)],
       lows |-> [k \in 1..Len(lo) |-> PivotAt(arr, lo[k], At(arr, lo[k]).low)]]

\* the candles whose high is above every other high of the window
findSwingHighsAlone(arr) ==
  LET hi == Ascending({i \in Centers(arr) :
                         \A idx \in 0..(2 * lookback) :
                           idx = lookback
                           \/ At(segment(arr, i), idx).high < At(arr, i).high})
  IN  [k \in 1..Len(hi) |-> PivotAt(arr, hi[k], At(arr, hi[k]).high)]

findSwingHighs(arr) ==
  LET hi == Ascending({i \in Centers(arr) :
                         At(arr, i).high = MaxOf(Highs(segment(arr, i)))})
  IN  [k \in 1..Len(hi) |-> PivotAt(arr, hi[k], At(arr, hi[k]).high)]

findSwingLows(arr) ==
  LET lo == Ascending({i \in Centers(arr) :
                         At(arr, i).low = MinOf(Lows(segment(arr, i)))})
  IN  [k \in 1..Len(lo) |-> PivotAt(arr, lo[k], At(arr, lo[k]).low)]

(***************************************************************************)
(* SupportResistanceAnalyzer.                                              *)
(***************************************************************************)
pricesOf(points) == [k \in 1..Len(points) |-> points[k].price]

\* the pivot compared with the price of the cluster's first point instead of
\* the cluster's mean: the first cluster, in
\* creation order, whose first point is within the tolerance takes the pivot
clusterStepFirst(clusters, pivot) ==
  LET tolerance == RDiv(priceTolerancePercent, RInt(100))
      fit == {k \in 1..Len(clusters) :
                RelDiffLeq(pivot.price, clusters[k].points[1].price, tolerance)}
  IN  IF fit = {}
      THEN Append(clusters, [avgPrice |-> pivot.price, points |-> <<pivot>>])
      ELSE LET k == CHOOSE x \in fit : \A y \in fit : x <= y
               pts == Append(clusters[k].points, pivot)
           IN  [clusters EXCEPT ![k] =
                  [avgPrice |-> RDiv(RSumOf(pricesOf(pts)), RInt(Len(pts))),
                   points |-> pts]]

\* the pivot given to the nearest cluster whose current mean is within the
\* tolerance, instead of the first one in creation order
clusterStepNearest(clusters, pivot) ==
  LET tolerance == RDiv(priceTolerancePercent, RInt(100))
      fit == {k \in 1..Len(clusters) :
                RelDiffLeq(pivot.price, clusters[k].avgPrice, tolerance)}
      nearer(x, y) ==
        \/ RLt(RSub(clusters[x].avgPrice, pivot.price),
               RSub(clusters[y].avgPrice, pivot.price))
           /\ RLeq(pivot.price, clusters[x].avgPrice)
           /\ RLeq(pivot.price, clusters[y].avgPrice)
        \/ RLt(RSub(pivot.price, clusters[x].avgPrice),
               RSub(pivot.price, clusters[y].avgPrice))
           /\ RLeq(clusters[x].avgPrice, pivot.price)
           /\ RLeq(clusters[y].avgPrice, pivot.price)
        \/ RLt(RSub(pivot.price, clusters[x].avgPrice),
               RSub(clusters[y].avgPrice, pivot.price))
           /\ RLeq(clusters[x].avgPrice, pivot.price)
           /\ RLeq(pivot.price, clusters[y].avgPrice)
        \/ RLt(RSub(clusters[x].avgPrice, pivot.price),
               RSub(pivot.price, clusters[y].avgPrice))
           /\ RLeq(pivot.price, clusters[x].avgPrice)
           /\ RLeq(clusters[y].avgPrice, pivot.price)
  IN  IF fit = {}
      THEN Append(clusters, [avgPrice |-> pivot.price, points |-> <<pivot>>])
      ELSE LET k == CHOOSE x \in fit :
                      \A y \in fit : ~nearer(y, x) /\ (nearer(x, y) \/ x <= y)
               pts == Append(clusters[k].points, pivot)
           IN  [clusters EXCEPT ![k] =
                  [avgPrice |-> RDiv(RSumOf(pricesOf(pts)), RInt(Len(pts))),
                   points |-> pts]]

\* one iteration of `for (const pivot of pivots)`: the first cluster, in
\* creation order, whose current mean is within the tolerance takes the pivot
clusterStep(clusters, pivot) ==
  LET tolerance == RDiv(priceTolerancePercent, RInt(100))
      fit == {k \in 1..Len(clusters) :
                RelDiffLeq(pivot.price, clusters[k].avgPrice, tolerance)}
  IN  IF fit = {}
      THEN Append(clusters, [avgPrice |-> pivot.price, points |-> <<pivot>>])
      ELSE LET k == CHOOSE x \in fit : \A y \in fit : x <= y
               pts == Append(clusters[k].points, pivot)
           IN  [clusters EXCEPT ![k] =
                  [avgPrice |-> RDiv(RSumOf(pricesOf(pts)), RInt(Len(pts))),
                   points |-> pts]]

RECURSIVE clusterFrom(_, _)
clusterFrom(clusters, pivots) ==
  IF pivots = <<>> THEN clusters
  ELSE clusterFrom(clusterStep(clusters, pivots[1]), Tail(pivots))

clusterPivotPoints(pivots) == clusterFrom(<<>>, pivots)

isRecentLevel(level, arr) ==
  LET recentPeriod == IF Len(arr) >= 250 THEN 50 ELSE Len(arr) \div 5
      recentData == Last(arr, recentPeriod)
      tolerance == Rat(1, 100)
      near(x) == RelDiffLeq(RInt(x), level.price, tolerance)
  IN  \E k \in 1..Len(recentData) :
        near(recentData[k].high) \/ near(recentData[k].low)

isRelevantLevel(level, arr) ==
  LET currentPrice == RInt(At(arr, Len(arr) - 1).close)
  IN  RelDiffLeq(level.price, currentPrice, Rat(15, 100))

levelOfCluster(cluster, arr, type) ==
  LET times == [k \in 1..Len(cluster.points) |-> cluster.points[k].time]
      volumes == [k \in 1..Len(cluster.points) |-> cluster.points[k].volume]
      level == [price |-> cluster.avgPrice,
                touches |-> Len(cluster.points),
                strength |-> 0,
                firstTouch |-> MinOf(times),
                lastTouch |-> MaxOf(times),
                volume |-> Rat(SumOf(volumes), Len(cluster.points)),
                type |-> type]
  IN  [price |-> level.price, touches |-> level.touches,
       strength |-> level.strength, firstTouch |-> level.firstTouch,
       lastTouch |-> level.lastTouch, volume |-> level.volume,
       type |-> level.type,
       isRecent |-> isRecentLevel(level, arr),
       isRelevant |-> isRelevantLevel(level, arr)]

identifyLevels(pivots, arr, type) ==
  LET clustered == clusterPivotPoints(pivots)
      kept == SelectSeq(clustered,
                        LAMBDA c : Len(c.points) >= minTouchCount)
      byStrength(levels) ==
        Sorted(levels, [k \in 1..Len(levels) |-> RInt(0 - levels[k].strength)])
  IN  byStrength([k \in 1..Len(kept) |-> levelOfCluster(kept[k], arr, type)])

identifySupportLevels(pivotLows, arr) == identifyLevels(pivotLows, arr, "support")

identifyResistanceLevels(pivotHighs, arr) ==
  identifyLevels(pivotHighs, arr, "resistance")

\* the step generateRoundNumbers picks, in hundredths
roundStep(maxPrice) ==
  IF RLt(maxPrice, RInt(100)) THEN 1
  ELSE IF RLt(maxPrice, RInt(1000)) THEN 10
  ELSE IF RLt(maxPrice, RInt(10000)) THEN 100
  ELSE IF RLt(maxPrice, RInt(100000)) THEN 1000
  ELSE 10000

generateRoundNumbers(minPrice, maxPrice) ==
  LET step == roundStep(maxPrice)
      first == RFloor(RDiv(minPrice, RInt(step)))
      last == RFloor(RDiv(maxPrice, RInt(step)))
      ks == Ascending({k \in first..last : k * step > 0})
  IN  [i \in 1..Len(ks) |-> ks[i] * step]

countTouches(level, arr) ==
  LET tolerance == Rat(5, 1000)
  IN  Cardinality({k \in 1..Len(arr) :
        \/ RelDiffLeq(RInt(arr[k].high), level, tolerance)
        \/ RelDiffLeq(RInt(arr[k].low), level, tolerance)
        \/ RelDiffLeq(RInt(arr[k].close), level, tolerance)})

\* for a non-empty series; on an empty one data[data.length - 1] is undefined
\* and reading its close raises
findPsychologicalLevels(arr) ==
  LET currentPrice == RInt(At(arr, Len(arr) - 1).close)
      priceRange == RMul(currentPrice, Rat(2, 10))
      minPrice == RSub(currentPrice, priceRange)
      maxPrice == RAdd(currentPrice, priceRange)
      roundNumbers == generateRoundNumbers(minPrice, maxPrice)
      touched == SelectSeq(roundNumbers,
                           LAMBDA p : countTouches(RInt(p), arr) >= 2)
  IN  [k \in 1..Len(touched) |->
         [price |-> RInt(touched[k]),
          touches |-> countTouches(RInt(touched[k]), arr),
          strength |-> RInt(countTouches(RInt(touched[k]), arr) * 10),
          type |-> "psychological", isRecent |-> TRUE, isRelevant |-> TRUE]]

bins == 50

RECURSIVE LcmOf(_)
\* least common multiple of a list of positive integers
LcmOf(xs) ==
  IF xs = <<>> THEN 1
  ELSE LET r == LcmOf(Tail(xs))
       IN  (xs[1] * r) \div Gcd(xs[1], r)

\* Bin i spans [minPrice + i*binSize, minPrice + (i+1)*binSize] with
\* binSize = priceRange / bins.  The bounds are kept multiplied by bins and
\* the shares of the candles are summed over the common denominator
\* bins * (least common multiple of the candle ranges), which gives the exact
\* value of the sum the code accumulates.
calculateVolumeProfile(arr) ==
  LET priceRange == MaxOf(Highs(arr)) - MinOf(Lows(arr))
      minPrice == MinOf(Lows(arr))
      ranges == [k \in 1..Len(arr) |->
                   IF arr[k].high > arr[k].low THEN arr[k].high - arr[k].low
                   ELSE 1]
      common == LcmOf(ranges)
      binLow(i) == bins * minPrice + i * priceRange
      binHigh(i) == bins * minPrice + (i + 1) * priceRange
      \* candle.volume * volumeRatio, times bins * common
      share(c, i) ==
        IF bins * c.low <= binHigh(i) /\ bins * c.high >= binLow(i)
        THEN LET overlap == Least(bins * c.high, binHigh(i))
                            - Greatest(bins * c.low, binLow(i))
                 candleRange == c.high - c.low
             IN  IF candleRange > 0
                 THEN c.volume * overlap * (common \div candleRange)
                 ELSE c.volume * bins * common
        ELSE 0
  IN  [b \in 1..bins |->
         [price |-> Rat(binLow(b - 1) + binHigh(b - 1), 2 * bins),
          volume |-> Rat(SumOf([k \in 1..Len(arr) |-> share(arr[k], b - 1)]),
                         bins * common),
          binLow |-> Rat(binLow(b - 1), bins),
          binHigh |-> Rat(binHigh(b - 1), bins)]]

\* for a non-empty series
findVolumeLevels(arr) ==
  LET sortedByVolume(volumeProfile) ==
        Sorted(volumeProfile,
               [k \in 1..Len(volumeProfile) |->
                  RSub(RInt(0), volumeProfile[k].volume)])
      highVolumeThreshold(volumeProfile) ==
        Only({At(sorted, Len(volumeProfile) \div 10).volume :
                sorted \in {sortedByVolume(volumeProfile)}})
      level(node) ==
        [price |-> node.price,
         touches |-> countTouches(node.price, arr),
         strength |-> RDiv(node.volume, RInt(1000)),
         type |-> "volume", volume |-> node.volume,
         isRecent |-> TRUE, isRelevant |-> TRUE]
      levels(nodes) == [k \in 1..Len(nodes) |-> level(nodes[k])]
      above(volumeProfile, threshold) ==
        Only({levels(nodes) :
                nodes \in {SelectSeq(volumeProfile,
                                     LAMBDA node : RLeq(threshold, node.volume))}})
      from(volumeProfile) ==
        Only({above(volumeProfile, threshold) :
                threshold \in {highVolumeThreshold(volumeProfile)}})
  IN  Only({from(volumeProfile) :
              volumeProfile \in {calculateVolumeProfile(arr)}})

\* the touch count taken off the strength: `strength -= level.touches * 15`
levelStrengthMinus(level, arr) ==
  LET currentPrice == RInt(At(arr, Len(arr) - 1).close)
      base == RInt(0 - level.touches * 15)
      avgVolume == Rat(SumOf(Volumes(arr)), Len(arr))
      volumePart == IF level.volume.n # 0
                    THEN RMul(RMul(RDiv(level.volume, avgVolume),
                                   volumeWeightFactor), RInt(20))
                    ELSE RInt(0)
      recentPart == IF level.isRecent THEN RInt(10) ELSE RInt(0)
      distancePart ==
        IF RelDiffLt(level.price, currentPrice, Rat(5, 100)) THEN RInt(15)
        ELSE IF RelDiffLt(level.price, currentPrice, Rat(10, 100)) THEN RInt(10)
        ELSE RInt(0)
      dataLength == Len(arr)
      levelAge == dataLength - level.lastTouch
      ageFactor == RMax(RInt(0), RSub(RInt(1), Rat(levelAge, dataLength)))
      agePart == RMul(ageFactor, RInt(10))
      typePart == IF level.type = "psychological" THEN RInt(5)
                  ELSE IF level.type = "volume" THEN RInt(8)
                  ELSE RInt(0)
  IN  RRound(RAdd(base, RAdd(volumePart, RAdd(recentPart,
             RAdd(distancePart, RAdd(agePart, typePart))))))

\* the strength calculateLevelStrength gives one level, for a non-empty series
\* whose volumes are not all zero
levelStrength(level, arr) ==
  LET currentPrice == RInt(At(arr, Len(arr) - 1).close)
      base == RInt(level.touches * 15)
      avgVolume == Rat(SumOf(Volumes(arr)), Len(arr))
      volumePart == IF level.volume.n # 0
                    THEN RMul(RMul(RDiv(level.volume, avgVolume),
                                   volumeWeightFactor), RInt(20))
                    ELSE RInt(0)
      recentPart == IF level.isRecent THEN RInt(10) ELSE RInt(0)
      distancePart ==
        IF RelDiffLt(level.price, currentPrice, Rat(5, 100)) THEN RInt(15)
        ELSE IF RelDiffLt(level.price, currentPrice, Rat(10, 100)) THEN RInt(10)
        ELSE RInt(0)
      dataLength == Len(arr)
      levelAge == dataLength - level.lastTouch
      ageFactor == RMax(RInt(0), RSub(RInt(1), Rat(levelAge, dataLength)))
      agePart == RMul(ageFactor, RInt(10))
      typePart == IF level.type = "psychological" THEN RInt(5)
                  ELSE IF level.type = "volume" THEN RInt(8)
                  ELSE RInt(0)
  IN  RRound(RAdd(base, RAdd(volumePart, RAdd(recentPart,
             RAdd(distancePart, RAdd(agePart, typePart))))))

calculateLevelStrength(levels, arr) ==
  IF arr = <<>> THEN TypeError
  ELSE [k \in 1..Len(levels) |->
          [levels[k] EXCEPT !.strength = levelStrength(levels[k], arr)]]

findLevels(arr) ==
  IF arr = <<>> THEN TypeError
  ELSE LET pivots == findPivotPoints(arr)
           supportLevels == identifySupportLevels(pivots.lows, arr)
           resistanceLevels == identifyResistanceLevels(pivots.highs, arr)
           psychLevels == findPsychologicalLevels(arr)
           volumeLevels == findVolumeLevels(arr)
       IN  [support |-> calculateLevelStrength(supportLevels, arr),
            resistance |-> calculateLevelStrength(resistanceLevels, arr),
            pivotPoints |-> pivots,
            keyLevels |-> psychLevels \o volumeLevels]

(***************************************************************************)
(* ElliottWaveAnalyzer.                                                    *)
(***************************************************************************)
RECURSIVE Flatten(_)
Flatten(lists) ==
  IF lists = <<>> THEN <<>> ELSE lists[1] \o Flatten(Tail(lists))

RECURSIVE filterFromAnyKind(_, _)
\* the loop keeping every swing that differs by 2% from the last kept one, of
\* whichever kind
filterFromAnyKind(filtered, swings) ==
  IF swings = <<>> THEN filtered
  ELSE LET current == swings[1]
           last == filtered[Len(filtered)]
           minSwingSize == Rat(2, 100)
           significant == ~RelDiffLt(current.price, last.price, minSwingSize)
           moreExtreme ==
             \/ current.type = "high" /\ RLt(last.price, current.price)
             \/ current.type = "low" /\ RLt(current.price, last.price)
           kept ==
             IF filtered = <<>> THEN <<current>>
             ELSE IF significant
                  THEN Append(filtered, current)
             ELSE IF current.type = last.type /\ moreExtreme
                  THEN [filtered EXCEPT ![Len(filtered)] = current]
             ELSE filtered
       IN  filterFromAnyKind(kept, Tail(swings))

RECURSIVE filterFrom(_, _)
\* the loop of filterSignificantSwings, from the list kept so far
filterFrom(filtered, swings) ==
  IF swings = <<>> THEN filtered
  ELSE LET current == swings[1]
           last == filtered[Len(filtered)]
           minSwingSize == Rat(2, 100)
           significant == ~RelDiffLt(current.price, last.price, minSwingSize)
           moreExtreme ==
             \/ current.type = "high" /\ RLt(last.price, current.price)
             \/ current.type = "low" /\ RLt(current.price, last.price)
           kept ==
             IF filtered = <<>> THEN <<current>>
             ELSE IF significant /\ current.type # last.type
                  THEN Append(filtered, current)
             ELSE IF current.type = last.type /\ moreExtreme
                  THEN [filtered EXCEPT ![Len(filtered)] = current]
             ELSE filtered
       IN  filterFrom(kept, Tail(swings))

filterSignificantSwings(swings) == filterFrom(<<>>, swings)

identifySwingPoints(arr) ==
  LET cs == Ascending(Centers(arr))
      swing(i, p, type) == [index |-> i, price |-> RInt(p), type |-> type,
                            time |-> At(arr, i).time]
      at(i) ==
        (IF At(arr, i).high = MaxOf(Highs(segment(arr, i)))
         THEN <<swing(i, At(arr, i).high, "high")>> ELSE <<>>)
        \o
        (IF At(arr, i).low = MinOf(Lows(segment(arr, i)))
         THEN <<swing(i, At(arr, i).low, "low")>> ELSE <<>>)
  IN  filterSignificantSwings(Flatten([k \in 1..Len(cs) |-> at(cs[k])]))

\* targets.some(target => Math.abs(value - target) <= tolerance); a value that
\* is not a number (a division by zero) is near nothing
isNearFibRatio(value, targets) ==
  LET tolerance == Rat(1, 10)
  IN  \E target \in targets : RLeq(RAbs(RSub(value, target)), tolerance)

\* num / den lies in [lo, hi]; false when den is 0 (the quotient is then
\* infinite or not a number)
RatioIn(num, den, lo, hi) ==
  /\ den.n # 0
  /\ RLeq(lo, RDiv(num, den))
  /\ RLeq(RDiv(num, den), hi)

NearRatio(num, den, targets) ==
  den.n # 0 /\ isNearFibRatio(RDiv(num, den), targets)

validateElliottRules(waves, direction) ==
  LET w1 == waves[1].price
      w2 == waves[2].price
      w3 == waves[3].price
      w4 == waves[4].price
      w5 == waves[5].price
      bull == direction = "bullish"
      wave1Length == IF bull THEN RSub(w2, w1) ELSE RSub(w1, w2)
      wave3Length == IF bull THEN RSub(w4, w3) ELSE RSub(w3, w4)
      wave5Length == IF bull THEN RSub(w5, w4) ELSE RSub(w4, w5)
      result(rule1, rule2, rule3, guide) ==
        [score |-> (IF rule1 THEN 15 ELSE 0) + (IF rule2 THEN 20 ELSE 0)
                   + (IF rule3 THEN 15 ELSE 0) + (IF guide THEN 10 ELSE 0),
         details |-> (IF rule1 THEN <<"Wave 2 retracement valid">> ELSE <<>>)
                     \o (IF rule2 THEN <<"Wave 3 is not shortest">> ELSE <<>>)
                     \o (IF rule3 THEN <<"Wave 4 does not overlap wave 1">>
                         ELSE <<>>)
                     \o (IF guide THEN <<"Wave 3 shows proper extension">>
                         ELSE <<>>)]
  IN  result(IF bull THEN RLt(w1, w2) ELSE RLt(w2, w1),
             RLeq(wave1Length, wave3Length) /\ RLeq(wave5Length, wave3Length),
             IF bull THEN RLt(w2, w4) ELSE RLt(w4, w2),
             RatioIn(wave3Length, wave1Length, Rat(15, 10), Rat(17, 10)))

\* the numerators and the denominators of the four ratios
calculateWaveRatios(waves) ==
  LET wave1Length == RAbs(RSub(waves[2].price, waves[1].price))
      wave2Length == RAbs(RSub(waves[3].price, waves[2].price))
      wave3Length == RAbs(RSub(waves[4].price, waves[3].price))
      wave4Length == RAbs(RSub(waves[5].price, waves[4].price))
      wave5Length == RAbs(RSub(waves[5].price, waves[4].price))
  IN  [wave2Retracement |-> <<wave2Length, wave1Length>>,
       wave3Extension |-> <<wave3Length, wave1Length>>,
       wave4Retracement |-> <<wave4Length, wave3Length>>,
       wave5Ratio |-> <<wave5Length, wave1Length>>]

checkFibonacciRelationships(waves) ==
  LET near(r, targets) == NearRatio(r[1], r[2], targets)
      result(f2, f3, f4, f5) ==
        [score |-> (IF f2 THEN 10 ELSE 0) + (IF f3 THEN 15 ELSE 0)
                   + (IF f4 THEN 10 ELSE 0) + (IF f5 THEN 10 ELSE 0),
         details |-> (IF f2 THEN <<"Wave 2 retracement">> ELSE <<>>)
                     \o (IF f3 THEN <<"Wave 3 extension">> ELSE <<>>)
                     \o (IF f4 THEN <<"Wave 4 retracement">> ELSE <<>>)
                     \o (IF f5 THEN <<"Wave 5 ratio">> ELSE <<>>)]
      relations(ratios) ==
        result(near(ratios.wave2Retracement,
                    {Rat(5, 10), Rat(618, 1000), Rat(786, 1000)}),
               near(ratios.wave3Extension, {Rat(1618, 1000), Rat(2618, 1000)}),
               near(ratios.wave4Retracement,
                    {Rat(236, 1000), Rat(382, 1000), Rat(5, 10)}),
               near(ratios.wave5Ratio, {RInt(1), Rat(618, 1000)}))
  IN  relations(calculateWaveRatios(waves))

analyzeImpulseWave(waves) ==
  IF Len(waves) # 5 THEN [isValid |-> FALSE]
  ELSE LET t(k) == waves[k].type
           alternationCorrect ==
             /\ t(1) # t(2) /\ t(2) # t(3) /\ t(3) # t(4) /\ t(4) # t(5)
             /\ t(1) = t(3) /\ t(3) = t(5)
             /\ t(2) = t(4)
           result(direction, rules, fibRelations, confidence) ==
             [isValid |-> confidence >= 60,
              direction |-> direction,
              confidence |-> Least(confidence, 95),
              rules |-> rules.details,
              fibonacci |-> fibRelations.details]
           scored(direction, rules, fibRelations) ==
             result(direction, rules, fibRelations,
                    20 + rules.score + fibRelations.score)
           directed(direction) ==
             scored(direction, validateElliottRules(waves, direction),
                    checkFibonacciRelationships(waves))
       IN  IF ~alternationCorrect THEN [isValid |-> FALSE]
           ELSE directed(IF t(1) = "low" THEN "bullish" ELSE "bearish")

\* bRetracement is |waveB.price - waveA.price| / waveALength
analyzeCorrectiveWave(waves) ==
  IF Len(waves) # 3 THEN [isValid |-> FALSE]
  ELSE LET wA == waves[1]
           wB == waves[2]
           wC == waves[3]
           alternationCorrect ==
             wA.type # wB.type /\ wB.type # wC.type /\ wA.type = wC.type
           result(direction, confidence) ==
             [isValid |-> confidence >= 40,
              direction |-> direction,
              confidence |-> Least(confidence, 90)]
           scored(direction, cNear, bNear) ==
             result(direction, 20 + (IF cNear THEN 20 ELSE 0)
                                  + (IF bNear THEN 15 ELSE 0))
           measured(direction, waveALength, waveCLength, waveBMove) ==
             scored(direction,
                    NearRatio(waveCLength, waveALength,
                              {RInt(1), Rat(1618, 1000)}),
                    NearRatio(waveBMove, waveALength,
                              {Rat(5, 10), Rat(618, 1000), Rat(786, 1000)}))
       IN  IF ~alternationCorrect THEN [isValid |-> FALSE]
           ELSE measured(IF wA.type = "high" THEN "bearish" ELSE "bullish",
                         RAbs(RSub(wB.price, wA.price)),
                         RAbs(RSub(wC.price, wB.price)),
                         RAbs(RSub(wB.price, wA.price)))

\* the impulse candidates, then the corrective candidates, that are valid
waveCandidates(swings) ==
  LET candidate(type, waves, a, startIndex) ==
        IF a.isValid
        THEN <<[type |-> type, waves |-> waves, direction |-> a.direction,
                confidence |-> a.confidence, startIndex |-> startIndex,
                endIndex |-> startIndex + Len(waves) - 1]>>
        ELSE <<>>
      impulse(fiveWaves, i) ==
        candidate("impulse", fiveWaves, analyzeImpulseWave(fiveWaves), i)
      corrective(threeWaves, i) ==
        candidate("corrective", threeWaves, analyzeCorrectiveWave(threeWaves), i)
  IN  Flatten([k \in 1..(Len(swings) - 4) |->
                 impulse(Slice(swings, k - 1, k + 4), k - 1)])
      \o Flatten([k \in 1..(Len(swings) - 2) |->
                    corrective(Slice(swings, k - 1, k + 2), k - 1)])

\* the guard one swing too strict: `if (swings.length < 6) return null`
identifyWaveStructureFromSix(swings) ==
  LET best(structures) ==
        IF Len(structures) > 0
        THEN Sorted(structures,
                    [k \in 1..Len(structures) |->
                       RInt(0 - structures[k].confidence)])[1]
        ELSE NULL
  IN  IF Len(swings) < 6 THEN NULL ELSE best(waveCandidates(swings))

\* the candidate of the highest confidence, the earliest pushed among equals
identifyWaveStructure(swings) ==
  LET best(structures) ==
        IF Len(structures) > 0
        THEN Sorted(structures,
                    [k \in 1..Len(structures) |->
                       RInt(0 - structures[k].confidence)])[1]
        ELSE NULL
  IN  IF Len(swings) < 5 THEN NULL ELSE best(waveCandidates(swings))

\* for a non-empty series
determineCurrentWave(structure, arr) ==
  IF structure = NULL THEN "null"
  ELSE LET currentPrice == RInt(At(arr, Len(arr) - 1).close)
           lastWave == structure.waves[Len(structure.waves)]
           waveCount == Len(structure.waves)
       IN  IF structure.type = "impulse"
           THEN IF waveCount = 5
                THEN IF \/ structure.direction = "bullish"
                           /\ RLt(currentPrice, lastWave.price)
                        \/ structure.direction = "bearish"
                           /\ RLt(lastWave.price, currentPrice)
                     THEN "A (corrective)"
                     ELSE "5 (completing)"
                ELSE "n (impulse)"
           ELSE IF waveCount <= 3
                THEN <<"A (corrective)", "B (corrective)",
                       "C (corrective)">>[waveCount]
                ELSE "C (completing)"

\* a complete pattern boosted by 20 instead of 10
calculateWaveConfidenceTwenty(structure) ==
  IF structure = NULL THEN 0
  ELSE LET complete ==
             \/ structure.type = "impulse" /\ Len(structure.waves) = 5
             \/ structure.type = "corrective" /\ Len(structure.waves) = 3
           confidence == structure.confidence
                         + (IF complete THEN 20 ELSE 0)
                         - (IF Len(structure.waves) < 3 THEN 20 ELSE 0)
       IN  Greatest(0, Least(95, confidence))

calculateWaveConfidence(structure) ==
  IF structure = NULL THEN 0
  ELSE LET complete ==
             \/ structure.type = "impulse" /\ Len(structure.waves) = 5
             \/ structure.type = "corrective" /\ Len(structure.waves) = 3
           confidence == structure.confidence
                         + (IF complete THEN 10 ELSE 0)
                         - (IF Len(structure.waves) < 3 THEN 20 ELSE 0)
       IN  Greatest(0, Least(95, confidence))

calculateImpulseProjections(structure) ==
  LET waves == structure.waves
      wave1Length == RAbs(RSub(waves[2].price, waves[1].price))
      wave1to3Range == RAbs(RSub(waves[3].price, waves[1].price))
      part == RMul(wave1to3Range, Rat(618, 1000))
  IN  [wave5_equal |-> IF structure.direction = "bullish"
                       THEN RAdd(waves[5].price, wave1Length)
                       ELSE RSub(waves[5].price, wave1Length),
       wave5_618 |-> IF structure.direction = "bullish"
                     THEN RAdd(waves[5].price, part)
                     ELSE RSub(waves[5].price, part)]

calculateCorrectiveProjections(structure) ==
  LET waves == structure.waves
      waveALength == RAbs(RSub(waves[2].price, waves[1].price))
      extended == RMul(waveALength, Rat(1618, 1000))
  IN  [waveC_equal |-> IF structure.direction = "bearish"
                       THEN RSub(waves[2].price, waveALength)
                       ELSE RAdd(waves[2].price, waveALength),
       waveC_1618 |-> IF structure.direction = "bearish"
                      THEN RSub(waves[2].price, extended)
                      ELSE RAdd(waves[2].price, extended)]

calculateWaveProjections(structure) ==
  IF structure = NULL THEN NULL
  ELSE IF structure.type = "impulse"
       THEN [impulse |-> calculateImpulseProjections(structure)]
       ELSE [corrective |-> calculateCorrectiveProjections(structure)]

\* candidates counts the calls of analyzeImpulseWave and analyzeCorrectiveWave
\* the call made
\* the early return reporting a neutral confidence: `confidence: 50`
analyzeWaveNeutral(arr) ==
  LET report(waveStructure, currentWave, confidence, swings) ==
        [isValid |-> confidence >= 60,
         currentWave |-> currentWave,
         confidence |-> confidence,
         waveStructure |-> waveStructure,
         projections |-> calculateWaveProjections(waveStructure),
         swings |-> swings,
         candidates |-> (swings - 4) + (swings - 2)]
      structured(waveStructure, swings) ==
        report(waveStructure, determineCurrentWave(waveStructure, arr),
               calculateWaveConfidence(waveStructure), swings)
      from(swingPoints) ==
        IF Len(swingPoints) < 5
        THEN [isValid |-> FALSE, currentWave |-> "null", confidence |-> 50,
              waveStructure |-> NULL, swings |-> Len(swingPoints),
              candidates |-> 0]
        ELSE structured(identifyWaveStructure(swingPoints), Len(swingPoints))
  IN  from(identifySwingPoints(arr))

\* swings is the number of swing points left by filterSignificantSwings and
\* candidates the number of wave candidates evaluated
analyzeWave(arr) ==
  LET report(waveStructure, currentWave, confidence, swings) ==
        [isValid |-> confidence >= 60,
         currentWave |-> currentWave,
         confidence |-> confidence,
         waveStructure |-> waveStructure,
         projections |-> calculateWaveProjections(waveStructure),
         swings |-> swings,
         candidates |-> (swings - 4) + (swings - 2)]
      structured(waveStructure, swings) ==
        report(waveStructure, determineCurrentWave(waveStructure, arr),
               calculateWaveConfidence(waveStructure), swings)
      from(swingPoints) ==
        IF Len(swingPoints) < 5
        THEN [isValid |-> FALSE, currentWave |-> "null", confidence |-> 0,
              waveStructure |-> NULL, swings |-> Len(swingPoints),
              candidates |-> 0]
        ELSE structured(identifyWaveStructure(swingPoints), Len(swingPoints))
  IN  from(identifySwingPoints(arr))

(***************************************************************************)
(* SmartMoneyAnalyzer.                                                     *)
(***************************************************************************)
fvgMinSize == Rat(5, 1000)

\* the break below the last swing low looked for before the break above the
\* last swing high
detectBreakOfStructureLowFirst(arr, swingHighs, swingLows) ==
  LET currentPrice == RInt(At(arr, Len(arr) - 1).close)
      recentHigh == swingHighs[Len(swingHighs)]
      recentLow == swingLows[Len(swingLows)]
  IN  IF Len(swingLows) > 0 /\ RLt(currentPrice, recentLow.price)
      THEN [type |-> "bearish", level |-> recentLow.price, confirmed |-> TRUE]
      ELSE IF Len(swingHighs) > 0 /\ RLt(recentHigh.price, currentPrice)
      THEN [type |-> "bullish", level |-> recentHigh.price, confirmed |-> TRUE]
      ELSE NULL

detectBreakOfStructure(arr, swingHighs, swingLows) ==
  LET currentPrice == RInt(At(arr, Len(arr) - 1).close)
      recentHigh == swingHighs[Len(swingHighs)]
      recentLow == swingLows[Len(swingLows)]
  IN  IF Len(swingHighs) > 0 /\ RLt(recentHigh.price, currentPrice)
      THEN [type |-> "bullish", level |-> recentHigh.price, confirmed |-> TRUE]
      ELSE IF Len(swingLows) > 0 /\ RLt(currentPrice, recentLow.price)
      THEN [type |-> "bearish", level |-> recentLow.price, confirmed |-> TRUE]
      ELSE NULL

detectChangeOfCharacter(arr, swingHighs, swingLows) ==
  IF Len(swingHighs) < 2 \/ Len(swingLows) < 2 THEN NULL
  ELSE LET lastTwoHighs == Last(swingHighs, 2)
           lastTwoLows == Last(swingLows, 2)
           currentPrice == RInt(At(arr, Len(arr) - 1).close)
       IN  IF /\ RLt(lastTwoHighs[2].price, lastTwoHighs[1].price)
              /\ RLt(lastTwoHighs[1].price, currentPrice)
           THEN [type |-> "bullish", level |-> lastTwoHighs[1].price,
                 confirmed |-> TRUE]
           ELSE IF /\ RLt(lastTwoLows[1].price, lastTwoLows[2].price)
                   /\ RLt(currentPrice, lastTwoLows[1].price)
           THEN [type |-> "bearish", level |-> lastTwoLows[1].price,
                 confirmed |-> TRUE]
           ELSE NULL

\* for a non-empty series: detectBreakOfStructure reads the close of
\* data[data.length - 1]
analyzeMarketStructure(arr) ==
  LET swingHighs == findSwingHighs(arr)
      swingLows == findSwingLows(arr)
      rising(sw) == Cardinality({i \in 2..Len(sw) :
                                   RLt(sw[i - 1].price, sw[i].price)})
      falling(sw) == Cardinality({i \in 2..Len(sw) :
                                    ~RLt(sw[i - 1].price, sw[i].price)})
      higherHighs == rising(swingHighs)
      lowerHighs == falling(swingHighs)
      higherLows == rising(swingLows)
      lowerLows == falling(swingLows)
  IN  [trend |-> IF higherHighs > lowerHighs /\ higherLows > lowerLows
                 THEN "bullish"
                 ELSE IF lowerHighs > higherHighs /\ lowerLows > higherLows
                 THEN "bearish"
                 ELSE "neutral",
       higherHighs |-> higherHighs, higherLows |-> higherLows,
       lowerHighs |-> lowerHighs, lowerLows |-> lowerLows,
       breakOfStructure |-> detectBreakOfStructure(arr, swingHighs, swingLows),
       changeOfCharacter |-> detectChangeOfCharacter(arr, swingHighs, swingLows)]

\* current.volume > avgVolume * 1.2 with avgVolume the mean volume of arr
aboveAverageVolume(current, arr) ==
  current.volume * Len(arr) * 10 > SumOf(Volumes(arr)) * 12

\* bodySize / candleRange > 0.6; a zero range gives no number above 0.6 for a
\* candle whose body lies within its range
strongBody(bodySize, current) ==
  /\ current.high - current.low > 0
  /\ bodySize * 10 > 6 * (current.high - current.low)

isBullishOrderBlock(prev, current, next, arr) ==
  /\ current.close > current.open
  /\ strongBody(current.close - current.open, current)
  /\ aboveAverageVolume(current, arr)
  /\ next.close > current.close

isBearishOrderBlock(prev, current, next, arr) ==
  /\ current.close < current.open
  /\ strongBody(current.open - current.close, current)
  /\ aboveAverageVolume(current, arr)
  /\ next.close < current.close

\* for a candle with a positive range and a series with a positive volume
calculateOrderBlockStrength(candle, arr) ==
  LET volumeRatio == RDiv(RInt(candle.volume),
                          Rat(SumOf(Volumes(arr)), Len(arr)))
      bodySize == Abs(candle.close - candle.open)
      bodyRatio == Rat(bodySize, candle.high - candle.low)
  IN  RRound(RAdd(RMul(volumeRatio, RInt(30)), RMul(bodyRatio, RInt(20))))

markTestedOrderBlocks(orderBlocks, arr) ==
  [k \in 1..Len(orderBlocks) |->
     LET ob == orderBlocks[k]
         hit(i) == IF ob.type = "bullish"
                   THEN At(arr, i).low <= ob.high /\ At(arr, i).low >= ob.low
                   ELSE At(arr, i).high >= ob.low /\ At(arr, i).high <= ob.high
     IN  [ob EXCEPT !.tested = \E i \in (ob.index + 1)..(Len(arr) - 1) : hit(i)]]

findOrderBlocks(arr) ==
  LET block(i, type) ==
        [type |-> type, high |-> At(arr, i).high, low |-> At(arr, i).low,
         index |-> i, time |-> At(arr, i).time, volume |-> At(arr, i).volume,
         strength |-> calculateOrderBlockStrength(At(arr, i), arr),
         tested |-> FALSE]
      at(i) ==
        (IF isBullishOrderBlock(At(arr, i - 1), At(arr, i), At(arr, i + 1), arr)
         THEN <<block(i, "bullish")>> ELSE <<>>)
        \o
        (IF isBearishOrderBlock(At(arr, i - 1), At(arr, i), At(arr, i + 1), arr)
         THEN <<block(i, "bearish")>> ELSE <<>>)
  IN  markTestedOrderBlocks(
        Flatten([k \in 1..(Len(arr) - 2) |-> at(k)]), arr)

markFilledFVGs(fvgs, arr) ==
  [k \in 1..Len(fvgs) |->
     LET fvg == fvgs[k]
         hit(i) == IF fvg.type = "bullish"
                   THEN At(arr, i).low <= fvg.high /\ At(arr, i).low >= fvg.low
                   ELSE At(arr, i).high >= fvg.low /\ At(arr, i).high <= fvg.high
     IN  [fvg EXCEPT !.filled = \E i \in (fvg.index + 1)..(Len(arr) - 1) : hit(i)]]

findFairValueGaps(arr) ==
  LET gap(i, type, high, low, size) ==
        [type |-> type, high |-> high, low |-> low, index |-> i,
         time |-> At(arr, i).time, size |-> size, filled |-> FALSE]
      at(i) ==
        LET prev == At(arr, i - 1)
            next == At(arr, i + 1)
            up == Rat(next.low - prev.high, prev.high)
            down == Rat(prev.low - next.high, next.high)
        IN  (IF prev.high < next.low /\ RLeq(fvgMinSize, up)
             THEN <<gap(i, "bullish", next.low, prev.high, up)>> ELSE <<>>)
            \o
            (IF prev.low > next.high /\ RLeq(fvgMinSize, down)
             THEN <<gap(i, "bearish", prev.low, next.high, down)>> ELSE <<>>)
  IN  markFilledFVGs(Flatten([k \in 1..(Len(arr) - 2) |-> at(k)]), arr)

\* one iteration of `for (const swing of swings)` of findEqualLevels
equalStep(groups, swing) ==
  LET tolerance == Rat(5, 1000)
      avgPrice(k) == RDiv(RSumOf(pricesOf(groups[k])), RInt(Len(groups[k])))
      fit == {k \in 1..Len(groups) :
                RelDiffLeq(swing.price, avgPrice(k), tolerance)}
  IN  IF fit = {} THEN Append(groups, <<swing>>)
      ELSE LET k == CHOOSE x \in fit : \A y \in fit : x <= y
           IN  [groups EXCEPT ![k] = Append(groups[k], swing)]

RECURSIVE equalFrom(_, _)
equalFrom(groups, swings) ==
  IF swings = <<>> THEN groups
  ELSE equalFrom(equalStep(groups, swings[1]), Tail(swings))

findEqualLevels(swings) ==
  SelectSeq(equalFrom(<<>>, swings), LAMBDA group : Len(group) >= 2)

\* for a non-empty series
markSweptLiquidity(liquidityZones, arr) ==
  LET currentPrice == RInt(At(arr, Len(arr) - 1).close)
  IN  [k \in 1..Len(liquidityZones) |->
         LET zone == liquidityZones[k]
         IN  [zone EXCEPT !.swept =
                \/ zone.type = "sell_side" /\ RLt(zone.level, currentPrice)
                \/ zone.type = "buy_side" /\ RLt(currentPrice, zone.level)]]

findLiquidityZones(arr) ==
  LET zones(groups, type) ==
        LET kept == SelectSeq(groups, LAMBDA group : Len(group) >= 2)
        IN  [k \in 1..Len(kept) |->
               [type |-> type, level |-> kept[k][1].price,
                count |-> Len(kept[k]), strength |-> Len(kept[k]) * 15,
                swept |-> FALSE]]
  IN  markSweptLiquidity(
        zones(findEqualLevels(findSwingHighs(arr)), "sell_side")
        \o zones(findEqualLevels(findSwingLows(arr)), "buy_side"), arr)

determineBias(analysis) ==
  LET ms == analysis.marketStructure
      recentOrderBlocks == Last(analysis.orderBlocks, 3)
      count(list, Test(_)) == Cardinality({k \in 1..Len(list) : Test(list[k])})
      unfilledFVGs == SelectSeq(analysis.fairValueGaps, LAMBDA fvg : ~fvg.filled)
      score(side) ==
        (IF ms.trend = side THEN 30 ELSE 0)
        + (IF ms.breakOfStructure # NULL
              /\ ((ms.breakOfStructure.type = "bullish") <=> (side = "bullish"))
           THEN 25 ELSE 0)
        + (IF ms.changeOfCharacter # NULL
              /\ ((ms.changeOfCharacter.type = "bullish") <=> (side = "bullish"))
           THEN 20 ELSE 0)
        + 10 * count(recentOrderBlocks,
                     LAMBDA ob : ob.type = side /\ ~ob.tested)
        + 5 * count(unfilledFVGs,
                    LAMBDA fvg : (fvg.type = "bullish") <=> (side = "bullish"))
      bullishScore == score("bullish")
      bearishScore == score("bearish")
  IN  IF bullishScore > bearishScore + 10 THEN "bullish"
      ELSE IF bearishScore > bullishScore + 10 THEN "bearish"
      ELSE "neutral"

calculateConfidence(analysis) ==
  LET ms == analysis.marketStructure
      validOrderBlocks == SelectSeq(analysis.orderBlocks,
                                    LAMBDA ob : ob.strength > 30)
      significantFVGs == SelectSeq(analysis.fairValueGaps,
                                   LAMBDA fvg : RLt(Rat(1, 100), fvg.size))
      activeLiquidity == SelectSeq(analysis.liquidityZones,
                                   LAMBDA lz : ~lz.swept)
      confidence ==
        (IF ms.trend # "neutral" THEN 20 ELSE 0)
        + (IF ms.breakOfStructure # NULL THEN 25 ELSE 0)
        + (IF ms.changeOfCharacter # NULL THEN 20 ELSE 0)
        + Least(Len(validOrderBlocks) * 10, 30)
        + Least(Len(significantFVGs) * 5, 15)
        + Least(Len(activeLiquidity) * 5, 10)
  IN  Least(confidence, 95)

identifyKeyLevels(analysis) ==
  LET untestedOBs == SelectSeq(analysis.orderBlocks,
                               LAMBDA ob : ~ob.tested /\ ob.strength > 30)
      unfilledFVGs == SelectSeq(analysis.fairValueGaps, LAMBDA fvg : ~fvg.filled)
      unsweptLiquidity == SelectSeq(analysis.liquidityZones,
                                    LAMBDA lz : ~lz.swept)
      byStrength(levels) ==
        Sorted(levels,
               [k \in 1..Len(levels) |-> RSub(RInt(0), levels[k].strength)])
  IN  byStrength(
        [k \in 1..Len(untestedOBs) |->
           [price |-> RInt(IF untestedOBs[k].type = "bullish"
                           THEN untestedOBs[k].low ELSE untestedOBs[k].high),
            type |-> "order_block", direction |-> untestedOBs[k].type,
            strength |-> RInt(untestedOBs[k].strength)]]
        \o
        [k \in 1..Len(unfilledFVGs) |->
           [price |-> Rat(unfilledFVGs[k].high + unfilledFVGs[k].low, 2),
            type |-> "fair_value_gap", direction |-> unfilledFVGs[k].type,
            strength |-> RMul(unfilledFVGs[k].size, RInt(1000))]]
        \o
        [k \in 1..Len(unsweptLiquidity) |->
           [price |-> unsweptLiquidity[k].level,
            type |-> "liquidity",
            direction |-> IF unsweptLiquidity[k].type = "buy_side"
                          THEN "bullish" ELSE "bearish",
            strength |-> RInt(unsweptLiquidity[k].strength)]])

analyze(arr) ==
  IF arr = <<>> THEN TypeError
  ELSE LET found == [marketStructure |-> analyzeMarketStructure(arr),
                     orderBlocks |-> findOrderBlocks(arr),
                     fairValueGaps |-> findFairValueGaps(arr),
                     liquidityZones |-> findLiquidityZones(arr)]
       IN  [bias |-> determineBias(found),
            confidence |-> calculateConfidence(found),
            orderBlocks |-> found.orderBlocks,
            fairValueGaps |-> found.fairValueGaps,
            liquidityZones |-> found.liquidityZones,
            marketStructure |-> found.marketStructure,
            keyLevels |-> identifyKeyLevels(found)]

(***************************************************************************)
(* PatternAnalyzer.                                                        *)
(***************************************************************************)
findPeaks(xs) ==
  LET is == Ascending({i \in 1..(Len(xs) - 2) :
                         At(xs, i) > At(xs, i - 1) /\ At(xs, i) > At(xs, i + 1)})
  IN  [k \in 1..Len(is) |-> [index |-> is[k], value |-> At(xs, is[k])]]

findTroughs(xs) ==
  LET is == Ascending({i \in 1..(Len(xs) - 2) :
                         At(xs, i) < At(xs, i - 1) /\ At(xs, i) < At(xs, i + 1)})
  IN  [k \in 1..Len(is) |-> [index |-> is[k], value |-> At(xs, is[k])]]

findSwingPoints(arr) ==
  LET highs == findPeaks(Highs(arr))
      lows == findTroughs(Lows(arr))
      byIndex(points) ==
        Sorted(points, [k \in 1..Len(points) |-> RInt(points[k].index)])
  IN  byIndex(
        [k \in 1..Len(highs) |->
           [index |-> highs[k].index, value |-> highs[k].value, type |-> "high"]]
        \o
        [k \in 1..Len(lows) |->
           [index |-> lows[k].index, value |-> lows[k].value, type |-> "low"]])

valuesOf(points) == [k \in 1..Len(points) |-> points[k].value]

\* every point within 2% of the mean of the points
isHorizontalResistance(peaks) ==
  /\ Len(peaks) >= 2
  /\ LET avgPrice == Rat(SumOf(valuesOf(peaks)), Len(peaks))
     IN  \A k \in 1..Len(peaks) :
           RelDiffLt(RInt(peaks[k].value), avgPrice, Rat(2, 100))

isRisingSupport(troughs) ==
  /\ Len(troughs) >= 2
  /\ \A i \in 2..Len(troughs) : troughs[i].value > troughs[i - 1].value

isHorizontalSupport(troughs) ==
  /\ Len(troughs) >= 2
  /\ LET avgPrice == Rat(SumOf(valuesOf(troughs)), Len(troughs))
     IN  \A k \in 1..Len(troughs) :
           RelDiffLt(RInt(troughs[k].value), avgPrice, Rat(2, 100))

isFallingResistance(peaks) ==
  /\ Len(peaks) >= 2
  /\ \A i \in 2..Len(peaks) : peaks[i].value < peaks[i - 1].value

\* lastVolume > avgVolume * factor over a non-empty list of volumes
volumeAbove(volume, factor) ==
  volume[Len(volume)] * Len(volume) * factor.d > SumOf(volume) * factor.n

checkBreakout(arr, direction) == volumeAbove(Volumes(Last(arr, 5)), Rat(15, 10))

determineBreakoutDirection(arr) ==
  LET closes == Closes(Last(arr, 10))
  IN  IF closes[Len(closes)] > closes[1] THEN "long" ELSE "short"

calculatePatternHeight(arr) ==
  LET recent == Last(arr, 20)
  IN  MaxOf(Highs(recent)) - MinOf(Lows(recent))

calculateTriangleTarget(arr, type) ==
  LET currentPrice == RInt(At(arr, Len(arr) - 1).close)
      height == RInt(calculatePatternHeight(arr))
  IN  CASE type = "ascending" -> RAdd(currentPrice, height)
        [] type = "descending" -> RSub(currentPrice, height)
        [] type = "symmetrical" ->
             RAdd(currentPrice, RMul(height, Rat(618, 1000)))
        [] OTHER -> currentPrice

isHeadAndShouldersPattern(points, type) ==
  /\ Len(points) = 3
  /\ LET left == points[1].value
         head == points[2].value
         right == points[3].value
     IN  /\ IF type = "bearish" THEN head > left /\ head > right
                                ELSE head < left /\ head < right
         /\ RelDiffLt(RInt(right), RInt(left), Rat(5, 100))

\* Math.min() of no numbers is Infinity and Math.max() is -Infinity, so with
\* one close only every comparison holds
checkNecklineBreak(arr, direction) ==
  LET closes == Closes(Last(arr, 10))
      before == SubSeq(closes, 1, Len(closes) - 1)
  IN  \/ before = <<>>
      \/ IF direction = "down" THEN closes[Len(closes)] < MinOf(before)
                               ELSE closes[Len(closes)] > MaxOf(before)

calculateHSTarget(arr, points) ==
  LET currentPrice == At(arr, Len(arr) - 1).close
      height == Abs(points[2].value - Least(points[1].value, points[3].value))
  IN  IF points[2].value > points[1].value
      THEN RInt(currentPrice - height) ELSE RInt(currentPrice + height)

isDoublePattern(points) ==
  /\ Len(points) = 2
  /\ RelDiffLt(RInt(points[2].value), RInt(points[1].value), Rat(3, 100))

checkSupportBreak(arr) ==
  LET lows == Lows(Last(arr, 10))
      before == SubSeq(lows, 1, Len(lows) - 2)
  IN  before = <<>> \/ At(arr, Len(arr) - 1).close < MinOf(before)

checkResistanceBreak(arr) ==
  LET highs == Highs(Last(arr, 10))
      before == SubSeq(highs, 1, Len(highs) - 2)
  IN  before = <<>> \/ At(arr, Len(arr) - 1).close > MaxOf(before)

calculateDoubleTopTarget(arr, peaks) ==
  LET currentPrice == At(arr, Len(arr) - 1).close
      height == peaks[1].value - MinOf(Lows(Last(arr, 20)))
  IN  RInt(currentPrice - height)

calculateDoubleBottomTarget(arr, troughs) ==
  LET currentPrice == At(arr, Len(arr) - 1).close
      height == MaxOf(Highs(Last(arr, 20))) - troughs[1].value
  IN  RInt(currentPrice + height)

\* the two halves' trends of isBullFlag and isBearFlag, for 10 candles or more
flagTrends(arr) ==
  LET firstHalf == Slice(arr, 0, Len(arr) \div 2)
      secondHalf == Slice(arr, Len(arr) \div 2, Len(arr))
  IN  [firstTrend |-> Rat(firstHalf[Len(firstHalf)].close - firstHalf[1].close,
                          firstHalf[1].close),
       secondTrend |-> RAbs(Rat(secondHalf[Len(secondHalf)].close
                                - secondHalf[1].close, secondHalf[1].close))]

isBullFlag(arr) ==
  /\ Len(arr) >= 10
  /\ RLt(Rat(5, 100), flagTrends(arr).firstTrend)
  /\ RLt(flagTrends(arr).secondTrend, Rat(2, 100))

isBearFlag(arr) ==
  /\ Len(arr) >= 10
  /\ RLt(flagTrends(arr).firstTrend, Rat(-5, 100))
  /\ RLt(flagTrends(arr).secondTrend, Rat(2, 100))

checkFlagBreakout(arr, direction) == volumeAbove(Volumes(arr), Rat(13, 10))

calculateFlagTarget(arr, type) ==
  LET currentPrice == At(arr, Len(arr) - 1).close
      flagHeight == calculatePatternHeight(Last(arr, 10))
  IN  IF type = "bull" THEN RInt(currentPrice + flagHeight)
      ELSE RInt(currentPrice - flagHeight)

isBullishEngulfing(prev, curr) ==
  /\ prev.close < prev.open
  /\ curr.close > curr.open
  /\ curr.open < prev.close
  /\ curr.close > prev.open

isBearishEngulfing(prev, curr) ==
  /\ prev.close > prev.open
  /\ curr.close < curr.open
  /\ curr.open > prev.close
  /\ curr.close < prev.open

\* bodySize / totalRange < 0.1; with a zero range the quotient is infinite or
\* not a number and the test fails
isDoji(candle) ==
  /\ candle.high - candle.low > 0
  /\ Abs(candle.close - candle.open) * 10 < candle.high - candle.low

\* the first two ratios alone, the CD/BC band left out
isGartleyPatternTwoLegs(swings) ==
  /\ Len(swings) >= 5
  /\ LET XA == RInt(Abs(swings[2].value - swings[1].value))
         AB == RInt(Abs(swings[3].value - swings[2].value))
         BC == RInt(Abs(swings[4].value - swings[3].value))
     IN  /\ RatioIn(AB, XA, Rat(58, 100), Rat(68, 100))
         /\ RatioIn(BC, AB, Rat(38, 100), Rat(48, 100))

isGartleyPattern(swings) ==
  /\ Len(swings) >= 5
  /\ LET XA == RInt(Abs(swings[2].value - swings[1].value))
         AB == RInt(Abs(swings[3].value - swings[2].value))
         BC == RInt(Abs(swings[4].value - swings[3].value))
         CD == RInt(Abs(swings[5].value - swings[4].value))
     IN  /\ RatioIn(AB, XA, Rat(58, 100), Rat(68, 100))
         /\ RatioIn(BC, AB, Rat(38, 100), Rat(48, 100))
         /\ RatioIn(CD, BC, Rat(125, 100), Rat(135, 100))

isButterflyPattern(swings) ==
  /\ Len(swings) >= 5
  /\ LET XA == RInt(Abs(swings[2].value - swings[1].value))
         AB == RInt(Abs(swings[3].value - swings[2].value))
         BC == RInt(Abs(swings[4].value - swings[3].value))
         XD == RInt(Abs(swings[5].value - swings[1].value))
     IN  /\ RatioIn(AB, XA, Rat(75, 100), Rat(85, 100))
         /\ RatioIn(BC, AB, Rat(38, 100), Rat(48, 100))
         /\ RatioIn(XD, XA, Rat(125, 100), Rat(135, 100))

getHarmonicDirection(swings) ==
  IF swings[Len(swings)].type = "low" THEN "long" ELSE "short"

checkHarmonicCompletion(swings) == Len(swings) >= 5

calculateHarmonicTarget(swings) ==
  LET XA == RInt(Abs(swings[2].value - swings[1].value))
      D == swings[5]
  IN  IF D.type = "low" THEN RAdd(RInt(D.value), RMul(XA, Rat(618, 1000)))
      ELSE RSub(RInt(D.value), RMul(XA, Rat(618, 1000)))

PatternMatch(name, direction, confidence, breakoutConfirmed, entry, target) ==
  [name |-> name, direction |-> direction, confidence |-> confidence,
   breakoutConfirmed |-> breakoutConfirmed, entry |-> entry, target |-> target]

\* entry of the chart patterns: data[data.length - 1].close
entryOf(arr) == RInt(At(arr, Len(arr) - 1).close)

detectTrianglePatterns(arr) ==
  LET highs == findPeaks(Highs(arr))
      lows == findTroughs(Lows(arr))
      recentHighs == Last(highs, 3)
      recentLows == Last(lows, 3)
      breakoutDirection == determineBreakoutDirection(arr)
  IN  IF Len(highs) >= 2 /\ Len(lows) >= 2
      THEN (IF isHorizontalResistance(recentHighs) /\ isRisingSupport(recentLows)
            THEN <<PatternMatch("Ascending Triangle", "long", 75,
                                checkBreakout(arr, "up"), entryOf(arr),
                                calculateTriangleTarget(arr, "ascending"))>>
            ELSE <<>>)
           \o
           (IF isHorizontalSupport(recentLows) /\ isFallingResistance(recentHighs)
            THEN <<PatternMatch("Descending Triangle", "short", 75,
                                checkBreakout(arr, "down"), entryOf(arr),
                                calculateTriangleTarget(arr, "descending"))>>
            ELSE <<>>)
           \o
           (IF isFallingResistance(recentHighs) /\ isRisingSupport(recentLows)
            THEN <<PatternMatch("Symmetrical Triangle", breakoutDirection, 70,
                                checkBreakout(arr, IF breakoutDirection = "long"
                                                   THEN "up" ELSE "down"),
                                entryOf(arr),
                                calculateTriangleTarget(arr, "symmetrical"))>>
            ELSE <<>>)
      ELSE <<>>

detectHeadAndShoulders(arr) ==
  LET peaks == findPeaks(Highs(arr))
      troughs == findTroughs(Lows(arr))
      lastThreePeaks == Last(peaks, 3)
      lastThreeTroughs == Last(troughs, 3)
  IN  IF Len(peaks) >= 3
      THEN (IF isHeadAndShouldersPattern(lastThreePeaks, "bearish")
            THEN <<PatternMatch("Head and Shoulders", "short", 80,
                                checkNecklineBreak(arr, "down"), entryOf(arr),
                                calculateHSTarget(arr, lastThreePeaks))>>
            ELSE <<>>)
           \o
           (IF Len(troughs) >= 3
               /\ isHeadAndShouldersPattern(lastThreeTroughs, "bullish")
            THEN <<PatternMatch("Inverse Head and Shoulders", "long", 80,
                                checkNecklineBreak(arr, "up"), entryOf(arr),
                                calculateHSTarget(arr, lastThreeTroughs))>>
            ELSE <<>>)
      ELSE <<>>

detectDoubleTopBottom(arr) ==
  LET peaks == findPeaks(Highs(arr))
      troughs == findTroughs(Lows(arr))
      lastTwoPeaks == Last(peaks, 2)
      lastTwoTroughs == Last(troughs, 2)
  IN  (IF Len(peaks) >= 2 /\ isDoublePattern(lastTwoPeaks)
       THEN <<PatternMatch("Double Top", "short", 75, checkSupportBreak(arr),
                           entryOf(arr),
                           calculateDoubleTopTarget(arr, lastTwoPeaks))>>
       ELSE <<>>)
      \o
      (IF Len(troughs) >= 2 /\ isDoublePattern(lastTwoTroughs)
       THEN <<PatternMatch("Double Bottom", "long", 75,
                           checkResistanceBreak(arr), entryOf(arr),
                           calculateDoubleBottomTarget(arr, lastTwoTroughs))>>
       ELSE <<>>)

detectFlagPatterns(arr) ==
  LET recentData == Last(arr, 20)
  IN  (IF isBullFlag(recentData)
       THEN <<PatternMatch("Bull Flag", "long", 70,
                           checkFlagBreakout(recentData, "up"), entryOf(arr),
                           calculateFlagTarget(arr, "bull"))>>
       ELSE <<>>)
      \o
      (IF isBearFlag(recentData)
       THEN <<PatternMatch("Bear Flag", "short", 70,
                           checkFlagBreakout(recentData, "down"), entryOf(arr),
                           calculateFlagTarget(arr, "bear"))>>
       ELSE <<>>)

\* for a non-empty series: on an empty one lastCandle is undefined and isDoji
\* raises when it reads its close
detectCandlestickPatterns(arr) ==
  LET recent == Last(arr, 5)
      prev == recent[Len(recent) - 1]
      curr == recent[Len(recent)]
      lastCandle == recent[Len(recent)]
  IN  (IF Len(recent) >= 2 /\ isBullishEngulfing(prev, curr)
       THEN <<PatternMatch("Bullish Engulfing", "long", 65, TRUE,
                           RInt(curr.close),
                           RMul(RInt(curr.close), Rat(102, 100)))>>
       ELSE <<>>)
      \o
      (IF Len(recent) >= 2 /\ isBearishEngulfing(prev, curr)
       THEN <<PatternMatch("Bearish Engulfing", "short", 65, TRUE,
                           RInt(curr.close),
                           RMul(RInt(curr.close), Rat(98, 100)))>>
       ELSE <<>>)
      \o
      (IF isDoji(lastCandle)
       THEN <<PatternMatch("Doji", "neutral", 60, FALSE,
                           RInt(lastCandle.close), RInt(lastCandle.close))>>
       ELSE <<>>)

detectHarmonicPatterns(arr) ==
  LET swings == findSwingPoints(arr)
      lastFive == Last(swings, 5)
  IN  IF Len(swings) >= 5
      THEN (IF isGartleyPattern(lastFive)
            THEN <<PatternMatch("Gartley", getHarmonicDirection(lastFive), 80,
                                checkHarmonicCompletion(lastFive), entryOf(arr),
                                calculateHarmonicTarget(lastFive))>>
            ELSE <<>>)
           \o
           (IF isButterflyPattern(lastFive)
            THEN <<PatternMatch("Butterfly", getHarmonicDirection(lastFive), 75,
                                checkHarmonicCompletion(lastFive), entryOf(arr),
                                calculateHarmonicTarget(lastFive))>>
            ELSE <<>>)
      ELSE <<>>

detectPatterns(arr) ==
  IF arr = <<>> THEN TypeError
  ELSE SelectSeq(detectTrianglePatterns(arr)
                 \o detectHeadAndShoulders(arr)
                 \o detectDoubleTopBottom(arr)
                 \o detectFlagPatterns(arr)
                 \o detectCandlestickPatterns(arr)
                 \o detectHarmonicPatterns(arr),
                 LAMBDA p : p.confidence >= 60)

(***************************************************************************)
(* App: trading levels.  A Number is a rational n/d; Infinity is 1/0 and   *)
(* NaN is 0/0.                                                             *)
(***************************************************************************)
calculateATR(ohlcData, period) ==
  IF Len(ohlcData) < period THEN RInt(0)
  ELSE LET tr(i) ==
             Greatest(At(ohlcData, i).high - At(ohlcData, i).low,
                      Greatest(Abs(At(ohlcData, i).high - At(ohlcData, i - 1).close),
                               Abs(At(ohlcData, i).low - At(ohlcData, i - 1).close)))
           trueRanges == [k \in 1..(Len(ohlcData) - 1) |-> tr(k)]
       IN  Rat(SumOf(Last(trueRanges, period)), period)

\* srLevels is the object findLevels returned; a level object compared with a
\* number converts to NaN, and a comparison with NaN is false
calculateTradingLevels(currentPrice, signal, srLevels, smcAnalysis) ==
  LET atr == calculateATR(IF "ohlcData" \in DOMAIN srLevels
                          THEN srLevels.ohlcData ELSE <<>>, 14)
      isNumber(v) == DOMAIN v = {"n", "d"}
      ordered(list, sign) ==
        Sorted(list, [k \in 1..Len(list) |-> RMul(RInt(sign), list[k])])
      supportBelow ==
        ordered(SelectSeq(srLevels.support,
                          LAMBDA x : isNumber(x) /\ RLt(x, currentPrice)), -1)
      resistanceAbove ==
        ordered(SelectSeq(srLevels.resistance,
                          LAMBDA x : isNumber(x) /\ RLt(currentPrice, x)), 1)
      \* list[i] || fallback: undefined and 0 are falsy
      orElse(list, i, fallback) ==
        IF i < Len(list) /\ At(list, i).n # 0 THEN At(list, i) ELSE fallback
      away(sign, m) == RAdd(currentPrice, RMul(atr, RInt(sign * m)))
      least(a, b) == IF RLeq(a, b) THEN a ELSE b
      stopLoss ==
        IF signal = "long"
        THEN IF Len(supportBelow) > 0 /\ supportBelow[1].n # 0
             THEN least(RMul(supportBelow[1], Rat(995, 1000)), away(-1, 1))
             ELSE away(-1, 1)
        ELSE IF Len(resistanceAbove) > 0 /\ resistanceAbove[1].n # 0
             THEN RMax(RMul(resistanceAbove[1], Rat(1005, 1000)), away(1, 1))
             ELSE away(1, 1)
      takeProfit(i) ==
        IF signal = "long" THEN orElse(resistanceAbove, i - 1, away(1, i + 1))
        ELSE orElse(supportBelow, i - 1, away(-1, i + 1))
      \* parseFloat(x.toFixed(digits)): the nearest multiple of 10^-digits
      toFixed(x, digits) ==
        LET whole == RFloor(x)
            rest == x.n - whole * x.d
        IN  Rat(whole * 10^digits
                + (2 * rest * 10^digits + x.d) \div (2 * x.d), 10^digits)
      quotient(num, den) ==
        IF den.n # 0 THEN toFixed(RDiv(num, den), 2)
        ELSE IF num.n # 0 THEN [n |-> 1, d |-> 0]
        ELSE [n |-> 0, d |-> 0]
  IN  [entry |-> toFixed(currentPrice, 6),
       stopLoss |-> toFixed(stopLoss, 6),
       takeProfit1 |-> toFixed(takeProfit(1), 6),
       takeProfit2 |-> toFixed(takeProfit(2), 6),
       takeProfit3 |-> toFixed(takeProfit(3), 6),
       riskReward |-> quotient(RAbs(RSub(takeProfit(1), currentPrice)),
                               RAbs(RSub(currentPrice, stopLoss)))]

(***************************************************************************)
(* The candle series.                                                      *)
(***************************************************************************)
\* the candle analyzeSymbol builds from kline k at position idx of a series
Candle(shape, idx) ==
  [time |-> TimeOrigin + idx * TimeStep, open |-> shape.open,
   high |-> shape.high, low |-> shape.low, close |-> shape.close,
   volume |-> shape.volume]

Series(word) == [k \in 1..Len(word) |-> Candle(word[k], k - 1)]

\* candle shapes: a narrow candle, a wide one, and one between them
Inner == [open |-> 955, high |-> 960, low |-> 945, close |-> 950, volume |-> 10]

Outer == [open |-> 910, high |-> 990, low |-> 900, close |-> 980, volume |-> 30]

Middle == [open |-> 925, high |-> 975, low |-> 920, close |-> 970, volume |-> 20]

Flat(c) == [open |-> c, high |-> c, low |-> c, close |-> c, volume |-> 10]

Dip(low) == [open |-> low + 30, high |-> low + 40, low |-> low,
             close |-> low + 10, volume |-> 20]

Times(n, shape) == [k \in 1..n |-> shape]

RECURSIVE Dips(_)
\* a series with one pivot low every sixth candle, at the given lows
Dips(lows) ==
  LET Calm == [open |-> 1110, high |-> 1140, low |-> 1100, close |-> 1120,
               volume |-> 10]
  IN  IF lows = <<>> THEN Times(lookback, Calm)
      ELSE Times(lookback, Calm) \o <<Dip(lows[1])>> \o Dips(Tail(lows))

\* longer series a fetch can deliver
Fixtures ==
  LET \* the closes 0.5, 5, 50, 500 and 5000, and 0.9, 9.5, 95 and 950
      SamplePrices == {50, 500, 5000, 50000, 500000, 90, 950, 9500, 95000}
      PivotLows == {1000, 1004, 1006, 1012}
      PivotWords == UNION {[1..n -> PivotLows] : n \in 2..3}
      \* series of 11 and 12 candles with one wide candle among narrow ones
      OnePeak ==
        UNION {{Series(Times(k, Inner) \o <<Outer>> \o Times(n - k - 1, Inner)) :
                  k \in 0..(n - 1)} : n \in 11..12}
      \* series whose last candles can form an order block or a fair value gap
      Endings == UNION {[1..n -> {Inner, Middle, Outer, Flat(1000)}] : n \in 2..3}
      \* 26 candles of the same height, each one step above the one before and
      \* of a larger volume: the 50 bins of its volume profile hold 50 different
      \* volumes
      Ramp == [j \in 1..26 |->
                 [open |-> 1004 + j, high |-> 1024 + j, low |-> 999 + j,
                  close |-> 1019 + j, volume |-> 25 * (3 * j - 2)]]
      \* a candle with a long lower wick: it closes at 9.80 after a low of 7.00
      Wick == [open |-> 950, high |-> 990, low |-> 700, close |-> 980,
               volume |-> 10]
  IN  {Series(Times(13, Flat(c))) : c \in SamplePrices}
      \cup {Series(Times(n, Wick)) : n \in 1..3}
      \cup OnePeak
      \cup {Series(Ramp)}
      \cup {Series(Times(5, Inner) \o w) : w \in Endings}
      \cup {Series(Dips(w)) : w \in PivotWords}
      \cup {Series(Dips(<<1000, 1004, 1008, 1006>>))}
      \cup {Series(Times(5, Inner) \o Times(2, Outer) \o Times(5, Inner)
                   \o Times(2, Middle) \o Times(5, Inner)),
            Series(Times(5, Inner) \o Times(2, Middle) \o Times(5, Inner)
                   \o Times(2, Outer) \o Times(5, Inner)),
            Series(Times(5, Inner) \o Times(3, Outer) \o Times(5, Inner))}

\* the price shapes a candle of a series built candle by candle can take
Shapes == {Inner, Outer}

Idle == [op |-> "none"]

\* no series fetched, no analyzer called; the App as useState leaves it: not
\* scanning, no log entry, startScanning not running
Init ==
  /\ data = <<>>
  /\ ret = Idle
  /\ app = [scanning |-> FALSE, logs |-> <<>>, clock |-> 0,
            call |-> [pc |-> "none"]]

\* one more kline arrives
AppendCandle ==
  /\ ret = Idle
  /\ Len(data) < MaxLen
  /\ \E s \in Shapes : data' = Append(data, Candle(s, Len(data)))
  /\ ret' = Idle
  /\ UNCHANGED app

\* a fetch delivers another series
LoadSeries ==
  /\ ret = Idle
  /\ \E f \in Fixtures : data' = f
  /\ ret' = Idle
  /\ UNCHANGED app

\* the caller takes the result
Return ==
  /\ ret # Idle
  /\ ret' = Idle
  /\ UNCHANGED <<data, app>>

FindPivotPoints ==
  /\ ret = Idle
  /\ ret' = [op |-> "findPivotPoints", out |-> findPivotPoints(data)]
  /\ UNCHANGED <<data, app>>

FindSwings ==
  /\ ret = Idle
  /\ ret' = [op |-> "findSwings", highs |-> findSwingHighs(data),
             lows |-> findSwingLows(data), pivots |-> findPivotPoints(data)]
  /\ UNCHANGED <<data, app>>

IdentifySwingPoints ==
  /\ ret = Idle
  /\ ret' = [op |-> "identifySwingPoints", out |-> identifySwingPoints(data)]
  /\ UNCHANGED <<data, app>>

FindLevels ==
  /\ ret = Idle
  /\ ret' = [op |-> "findLevels", out |-> findLevels(data)]
  /\ UNCHANGED <<data, app>>

AnalyzeWave ==
  /\ ret = Idle
  /\ ret' = [op |-> "analyzeWave", out |-> analyzeWave(data)]
  /\ UNCHANGED <<data, app>>

Analyze ==
  /\ ret = Idle
  /\ ret' = [op |-> "analyze", out |-> analyze(data)]
  /\ UNCHANGED <<data, app>>

\* detectPatterns, with what each of its six recognizers returned to it
DetectPatterns ==
  /\ ret = Idle
  /\ ret' = [op |-> "detectPatterns",
             found |-> IF data = <<>> THEN <<>>
                       ELSE <<detectTrianglePatterns(data),
                              detectHeadAndShoulders(data),
                              detectDoubleTopBottom(data),
                              detectFlagPatterns(data),
                              detectCandlestickPatterns(data),
                              detectHarmonicPatterns(data)>>,
             out |-> detectPatterns(data)]
  /\ UNCHANGED <<data, app>>

\* findPsychologicalLevels with the close and the step it works with
FindPsychologicalLevels ==
  /\ ret = Idle
  /\ ret' = IF data = <<>>
            THEN [op |-> "findPsychologicalLevels", out |-> TypeError]
            ELSE [op |-> "findPsychologicalLevels",
                  currentPrice |-> At(data, Len(data) - 1).close,
                  step |-> roundStep(RMul(RInt(At(data, Len(data) - 1).close),
                                          Rat(12, 10))),
                  out |-> findPsychologicalLevels(data)]
  /\ UNCHANGED <<data, app>>

\* clusterPivotPoints on the pivot lows of the series, and again on one pivot
\* per cluster priced at the cluster's avgPrice, in creation order; steps[i]
\* is `clusters` after the i-th iteration of the loop over the pivots
Recluster ==
  /\ ret = Idle
  /\ \E pivots \in {findPivotPoints(data).lows} :
       \E first \in {clusterPivotPoints(pivots)} :
         LET means == [k \in 1..Len(first) |->
                         [index |-> k - 1, price |-> first[k].avgPrice,
                          time |-> 0, volume |-> 0]]
         IN  ret' = [op |-> "clusterPivotPoints",
                     pivots |-> pivots,
                     steps |-> [i \in 1..Len(pivots) |->
                                  clusterPivotPoints(SubSeq(pivots, 1, i))],
                     first |-> first, means |-> means,
                     second |-> clusterPivotPoints(means)]
  /\ UNCHANGED <<data, app>>

\* calculateLevelStrength on two levels that differ in touches only
CalculateLevelStrength ==
  /\ ret = Idle
  /\ data # <<>>
  /\ \E pivots \in {findPivotPoints(data)} :
       \E found \in {identifySupportLevels(pivots.lows, data),
                      identifyResistanceLevels(pivots.highs, data)} :
         \E k \in 1..Len(found), t1, t2 \in 0..MaxTouches :
           LET levels == <<[found[k] EXCEPT !.touches = t1],
                           [found[k] EXCEPT !.touches = t2]>>
           IN  ret' = [op |-> "calculateLevelStrength", levels |-> levels,
                       out |-> calculateLevelStrength(levels, data)]
  /\ UNCHANGED <<data, app>>

Next ==
  \/ AppendCandle
  \/ LoadSeries
  \/ Return
  \/ FindPivotPoints
  \/ FindSwings
  \/ IdentifySwingPoints
  \/ FindLevels
  \/ AnalyzeWave
  \/ Analyze
  \/ DetectPatterns
  \/ FindPsychologicalLevels
  \/ Recluster
  \/ CalculateLevelStrength

Spec == Init /\ [][Next]_vars


(***************************************************************************)
(* The analyzers' functions called on arguments of their own.              *)
(***************************************************************************)
\* isGartleyPattern on five swings X, A, B, C, D, prices in hundredths; a
\* swing's type and index follow its position
IsGartleyPattern ==
  /\ ret = Idle
  /\ LET SwingValues ==
           {<<10000, 20000, b, c, d>> :
              b \in {13790, 12100}, c \in {11180, 16400, 15100},
              d \in {16000, 13080, 14500, 22700}}
         HarmonicSwings ==
           {[k \in 1..5 |-> [index |-> 2 * k, value |-> v[k],
                              type |-> IF k % 2 = 1 THEN "low" ELSE "high"]] :
              v \in SwingValues}
     IN  \E swings \in HarmonicSwings :
           ret' = [op |-> "isGartleyPattern", swings |-> swings,
                   out |-> isGartleyPattern(swings)]
  /\ UNCHANGED <<data, app>>

\* identifyWaveStructure and calculateWaveConfidence on 4 to 6 alternating
\* swings, prices in hundredths
IdentifyWaveStructure ==
  /\ ret = Idle
  /\ LET Prices ==
           {<<a, 15000, c, d, e, 16000>> :
              a \in {10000, 16000}, c \in {12000, 9000},
              d \in {18000, 14000, 15000}, e \in {14000, 20000}}
         swingsOf(prices, n, first) ==
           [k \in 1..n |->
              [index |-> 10 * k, price |-> RInt(prices[k]),
               time |-> TimeOrigin + 10 * k * TimeStep,
               type |-> IF k % 2 = 1 THEN first
                        ELSE IF first = "low" THEN "high" ELSE "low"]]
     IN  \E prices \in Prices, n \in 4..6, first \in {"low", "high"} :
           \E structure \in {identifyWaveStructure(swingsOf(prices, n, first))} :
             ret' = [op |-> "identifyWaveStructure",
                     swings |-> swingsOf(prices, n, first),
                     candidates |-> waveCandidates(swingsOf(prices, n, first)),
                     out |-> structure,
                     confidence |-> calculateWaveConfidence(structure)]
  /\ UNCHANGED <<data, app>>

\* the longest list of order blocks determineBias is called on
MaxBlocks == 4

\* determineBias on an analysis with up to MaxBlocks order blocks, no fair
\* value gap, and no break of structure or change of character
DetermineBias ==
  /\ ret = Idle
  /\ LET Blocks == [type : {"bullish", "bearish"}, tested : BOOLEAN]
         analysisOf(trend, orderBlocks) ==
           [marketStructure |-> [trend |-> trend, breakOfStructure |-> NULL,
                                 changeOfCharacter |-> NULL],
            orderBlocks |-> orderBlocks,
            fairValueGaps |-> <<>>,
            liquidityZones |-> <<>>]
     IN  \E n \in 0..MaxBlocks, trend \in {"neutral", "bearish"} :
           \E orderBlocks \in [1..n -> Blocks] :
             ret' = [op |-> "determineBias",
                     analysis |-> analysisOf(trend, orderBlocks),
                     out |-> determineBias(analysisOf(trend, orderBlocks))]
  /\ UNCHANGED <<data, app>>

\* analyzeSymbol from findLevels to calculateTradingLevels, on a fetched series
\* and for either signal of the primary pattern
CalculateTradingLevels ==
  /\ ret = Idle
  /\ LET Fetched ==
           {Series(Dips(w)) : w \in {<<1000, 1004>>, <<1000, 1012>>}}
           \cup {Series(Times(13, Flat(950))),
                 Series(Times(5, Inner) \o Times(2, Middle) \o Times(5, Inner)
                        \o Times(2, Outer) \o Times(5, Inner))}
     IN  \E ohlcData \in Fetched, signal \in {"long", "short"} :
           \E srLevels \in {findLevels(ohlcData)} :
             ret' = [op |-> "calculateTradingLevels",
                     currentPrice |-> At(ohlcData, Len(ohlcData) - 1).close,
                     signal |-> signal,
                     support |-> srLevels.support,
                     resistance |-> srLevels.resistance,
                     out |-> calculateTradingLevels(
                               RInt(At(ohlcData, Len(ohlcData) - 1).close),
                               signal, srLevels, analyze(ohlcData))]
  /\ UNCHANGED <<data, app>>

\* the longest swing list filterSignificantSwings is called on
MaxSwings == 6

\* filterSignificantSwings on up to MaxSwings swings of either kind, in index
\* order
FilterSignificantSwings ==
  /\ ret = Idle
  /\ LET Swings == [type : {"high", "low"}, price : {100, 97, 99}]
         swingsOf(word) ==
           [k \in 1..Len(word) |->
              [index |-> 10 * k, price |-> RInt(word[k].price),
               type |-> word[k].type, time |-> TimeOrigin + 10 * k * TimeStep]]
     IN  \E n \in 0..MaxSwings :
           \E word \in [1..n -> Swings] :
             ret' = [op |-> "filterSignificantSwings",
                     swings |-> swingsOf(word),
                     out |-> filterSignificantSwings(swingsOf(word))]
  /\ UNCHANGED <<data, app>>

\* validateElliottRules on five alternating swings, as analyzeImpulseWave
\* calls it: bullish when the first swing is a low, bearish when it is a high
ValidateElliottRules ==
  /\ ret = Idle
  /\ LET Prices ==
           {<<a, b, 120, d, e>> :
              a \in {100, 130}, b \in {150, 170, 110},
              d \in {160, 180, 100}, e \in {140, 200, 90}}
         wavesOf(prices, first) ==
           [k \in 1..5 |->
              [index |-> 10 * k, price |-> RInt(prices[k]),
               time |-> TimeOrigin + 10 * k * TimeStep,
               type |-> IF k % 2 = 1 THEN first
                        ELSE IF first = "low" THEN "high" ELSE "low"]]
         directionOf(first) == IF first = "low" THEN "bullish" ELSE "bearish"
     IN  \E prices \in Prices, first \in {"low", "high"} :
           ret' = [op |-> "validateElliottRules",
                   waves |-> wavesOf(prices, first),
                   direction |-> directionOf(first),
                   out |-> validateElliottRules(wavesOf(prices, first),
                                                directionOf(first))]
  /\ UNCHANGED <<data, app>>

\* analyzeCorrectiveWave on the alternating swings A, B, C for every B and C
\* of a grid of prices: out[<<b, c>>] is the result for the prices a, b, c
AnalyzeCorrectiveWave ==
  /\ ret = Idle
  /\ LET PricesB == {1200, 1100, 1000, 800}
         PricesC == {700, 876, 1000, 1043, 1076, 1100, 1150, 1300}
         wavesOf(prices, first) ==
           [k \in 1..3 |->
              [index |-> 10 * k, price |-> RInt(prices[k]),
               time |-> TimeOrigin + 10 * k * TimeStep,
               type |-> IF k % 2 = 1 THEN first
                        ELSE IF first = "low" THEN "high" ELSE "low"]]
     IN  \E a \in {1000, 900}, first \in {"low", "high"} :
           ret' = [op |-> "analyzeCorrectiveWave", a |-> a, first |-> first,
                   out |-> [w \in PricesB \X PricesC |->
                              analyzeCorrectiveWave(
                                wavesOf(<<a, w[1], w[2]>>, first))]]
  /\ UNCHANGED <<data, app>>

\* the two detections analyzeMarketStructure ends with, on up to three swing
\* highs and three swing lows of its own and a series of one candle that
\* closes at the current price
AnalyzeMarketStructure ==
  /\ ret = Idle
  /\ LET Prices == {100, 110, 120}
         swingsOf(prices) ==
           [k \in 1..Len(prices) |->
              [index |-> 10 * k, price |-> RInt(prices[k]),
               time |-> TimeOrigin + 10 * k * TimeStep, volume |-> 10]]
     IN  \E n, m \in 0..3, close \in {95, 105, 115, 125} :
           \E highs \in [1..n -> Prices], lows \in [1..m -> Prices] :
             ret' = [op |-> "analyzeMarketStructure",
                     swingHighs |-> swingsOf(highs),
                     swingLows |-> swingsOf(lows),
                     currentPrice |-> close,
                     breakOfStructure |->
                       detectBreakOfStructure(Series(<<Flat(close)>>),
                                              swingsOf(highs), swingsOf(lows)),
                     changeOfCharacter |->
                       detectChangeOfCharacter(Series(<<Flat(close)>>),
                                               swingsOf(highs), swingsOf(lows))]
  /\ UNCHANGED <<data, app>>

CallNext ==
  \/ Return
  \/ AnalyzeMarketStructure
  \/ AnalyzeCorrectiveWave
  \/ ValidateElliottRules
  \/ FilterSignificantSwings
  \/ IsGartleyPattern
  \/ IdentifyWaveStructure
  \/ DetermineBias
  \/ CalculateTradingLevels

\* the calls start from the state after construction
Calls == Init /\ [][CallNext]_vars

(***************************************************************************)
(* App: the log and the scan.  app.scanning and app.logs are the React     *)
(* states of the same names; app.clock is the clock addLog reads, one tick *)
(* per call; app.call is the running call of startScanning: its position   *)
(* (the await it waits at), the value of `scanning` its closure holds, its *)
(* symbols, its loop index and the symbols it has passed to analyzeSymbol. *)
(***************************************************************************)
\* the log keeping one entry more: prev.slice(0, 100)
addLogSliceHundred(logs, clock, message, type) ==
  <<[timestamp |-> clock, message |-> message, type |-> type]>>
  \o Slice(logs, 0, 100)

\* setLogs(prev => [newLog, ...prev.slice(0, 99)])
addLog(logs, clock, message, type) ==
  <<[timestamp |-> clock, message |-> message, type |-> type]>>
  \o Slice(logs, 0, 99)

\* the number of addLog calls after which no scan is started or stopped
MaxClock == 6

\* the most symbols getTopUSDTSymbols returns
MaxSymbols == 2

\* startScanning up to its first await; one call runs at a time
StartScanning ==
  /\ app.clock < MaxClock
  /\ IF app.scanning
     THEN UNCHANGED app
     ELSE /\ app.call.pc \in {"none", "done"}
          /\ app' = [scanning |-> TRUE,
                     logs |-> addLog(app.logs, app.clock,
                                     "Starting comprehensive pattern scan...",
                                     "info"),
                     clock |-> app.clock + 1,
                     call |-> [pc |-> "symbols", scanning |-> app.scanning,
                               started |-> app.clock, symbols |-> <<>>,
                               i |-> 0, analyzed |-> <<>>]]
  /\ UNCHANGED <<data, ret>>

\* getTopUSDTSymbols returns up to MaxSymbols symbols, or throws: `catch` logs
\* the error and `finally` ends the scan
GetTopUSDTSymbols ==
  /\ app.call.pc = "symbols"
  /\ \E n \in 0..MaxSymbols, thrown \in BOOLEAN :
       app' = IF thrown
              THEN [app EXCEPT !.scanning = FALSE,
                               !.logs = addLog(app.logs, app.clock,
                                               "Scan error", "error"),
                               !.clock = app.clock + 1,
                               !.call.pc = "done"]
              ELSE [app EXCEPT !.logs = addLog(app.logs, app.clock,
                                               "Found USDT pairs to analyze",
                                               "info"),
                               !.clock = app.clock + 1,
                               !.call.pc = "btc",
                               !.call.symbols =
                                 SubSeq(<<"BTCUSDT", "ETHUSDT", "BNBUSDT">>,
                                        1, n)]
  /\ UNCHANGED <<data, ret>>

\* analyzeBTCTrend returns a trend, after logging the error it caught if any
AnalyzeBTCTrend ==
  /\ app.call.pc = "btc"
  /\ \E caught \in BOOLEAN :
       \E logs \in {IF caught
                     THEN addLog(app.logs, app.clock,
                                 "Error analyzing BTC trend", "error")
                     ELSE app.logs} :
         \E clock \in {IF caught THEN app.clock + 1 ELSE app.clock} :
           app' = [app EXCEPT !.logs = addLog(logs, clock, "BTC trend", "info"),
                              !.clock = clock + 1,
                              !.call.pc = "loop"]
  /\ UNCHANGED <<data, ret>>

\* the for loop from its test to the 100 ms delay: one symbol analyzed, or the
\* loop left (by i = symbols.length or by `if (!scanning) break`, which reads
\* the closure's scanning), 'Scan completed' logged and the scan ended
ScanLoop ==
  /\ app.call.pc = "loop"
  /\ IF app.call.i < Len(app.call.symbols) /\ ~(~app.call.scanning)
     THEN \E outcome \in {"signal", "none", "error"} :
            \E logs \in {addLog(app.logs, app.clock, "Analyzing", "info")} :
              app' = [app EXCEPT
                        !.logs = IF outcome = "signal"
                                 THEN addLog(logs, app.clock + 1,
                                             "Signal found", "success")
                                 ELSE IF outcome = "error"
                                 THEN addLog(logs, app.clock + 1,
                                             "Error analyzing", "error")
                                 ELSE logs,
                        !.clock = IF outcome = "none" THEN app.clock + 1
                                  ELSE app.clock + 2,
                        !.call.analyzed =
                          Append(app.call.analyzed,
                                 At(app.call.symbols, app.call.i)),
                        !.call.i = app.call.i + 1]
     ELSE app' = [app EXCEPT !.scanning = FALSE,
                             !.logs = addLog(app.logs, app.clock,
                                             "Scan completed", "success"),
                             !.clock = app.clock + 1,
                             !.call.pc = "done"]
  /\ UNCHANGED <<data, ret>>

StopScanning ==
  /\ app.clock < MaxClock
  /\ app' = [app EXCEPT !.scanning = FALSE,
                        !.logs = addLog(app.logs, app.clock,
                                        "Scan stopped by user", "info"),
                        !.clock = app.clock + 1]
  /\ UNCHANGED <<data, ret>>

ScanNext ==
  \/ StartScanning
  \/ GetTopUSDTSymbols
  \/ AnalyzeBTCTrend
  \/ ScanLoop
  \/ StopScanning

\* the scans of an App that fetches nothing else
Scan == Init /\ [][ScanNext]_vars

\* the number of addLog calls the log is followed for
MaxLogs == 102

\* testApiConnection up to its await: one call of addLog
TestApiConnection ==
  /\ app.clock < MaxLogs
  /\ app' = [app EXCEPT !.logs = addLog(app.logs, app.clock,
                                        "Testing API connection...", "info"),
                        !.clock = app.clock + 1]
  /\ UNCHANGED <<data, ret>>

\* an App whose log is written by testApiConnection only
Logs == Init /\ [][TestApiConnection]_vars

(***************************************************************************)
(* Properties.                                                             *)
(***************************************************************************)
called(op) == ret # Idle /\ ret.op = op

returned(op) == called(op) /\ ret.out # TypeError

\* C1: a series of fewer than 11 candles has no pivot and no swing:
\* findPivotPoints returns empty highs and lows, findSwingHighs and
\* findSwingLows return nothing, and identifySwingPoints returns nothing
C1_NoPivotBelowEleven ==
  Len(data) < 11 =>
    /\ called("findPivotPoints") =>
         ret.out.highs = <<>> /\ ret.out.lows = <<>>
    /\ called("findSwings") => ret.highs = <<>> /\ ret.lows = <<>>
    /\ called("identifySwingPoints") => ret.out = <<>>

C1_Witness ==
  /\ Len(data) = 10
  /\ called("findPivotPoints")
  /\ ret.out.highs = <<>>
  /\ ret.out.lows = <<>>

\* C2 (as claimed): on every series of 0 to 10 candles, the empty one
\* included, findLevels, analyze, detectPatterns and analyzeWave each return
\* a value and none raises
C2_ShortSeriesNeverRaises ==
  (/\ Len(data) <= 10
   /\ ret # Idle
   /\ ret.op \in {"findLevels", "analyze", "detectPatterns", "analyzeWave"})
  => ret.out # TypeError

\* C3 (as claimed): on a non-empty series of fewer than 11 candles findLevels
\* returns empty support, empty resistance and empty keyLevels
C3_ShortSeriesNoLevels ==
  (Len(data) \in 1..10 /\ returned("findLevels")) =>
    /\ ret.out.pivotPoints.highs = <<>>
    /\ ret.out.pivotPoints.lows = <<>>
    /\ ret.out.support = <<>>
    /\ ret.out.resistance = <<>>
    /\ ret.out.keyLevels = <<>>

\* C4: when fewer than 5 swings are left after filterSignificantSwings,
\* analyzeWave returns isValid false, confidence 0, no current wave and no
\* wave structure, and has evaluated no wave candidate
C4_FewSwingsInvalid ==
  (called("analyzeWave") /\ ret.out.swings < 5) =>
    /\ ret.out.isValid = FALSE
    /\ ret.out.confidence = 0
    /\ ret.out.currentWave = "null"
    /\ ret.out.waveStructure = NULL
    /\ ret.out.candidates = 0

C4_Witness ==
  /\ called("analyzeWave")
  /\ ret.out.swings \in 1..4
  /\ ret.out.isValid = FALSE
  /\ ret.out.candidates = 0

nonIncreasingStrength(levels) ==
  \A i, j \in 1..Len(levels) : i < j => levels[i].strength >= levels[j].strength

\* C5 (as claimed): the support list and the resistance list findLevels
\* returns are each ordered by non-increasing strength
C5_LevelsOrderedByStrength ==
  returned("findLevels") =>
    /\ nonIncreasingStrength(ret.out.support)
    /\ nonIncreasingStrength(ret.out.resistance)

\* C6 (as claimed): every support and resistance level findLevels returns
\* has an integer strength between 0 and 100
C6_StrengthWithinPercent ==
  returned("findLevels") =>
    /\ \A k \in 1..Len(ret.out.support) :
         ret.out.support[k].strength \in 0..100
    /\ \A k \in 1..Len(ret.out.resistance) :
         ret.out.resistance[k].strength \in 0..100

\* C7 (as claimed): every level findLevels returns, in support, resistance
\* and keyLevels (psychological and volume levels included), has at least
\* 2 touches
C7_EveryLevelTouchedTwice ==
  returned("findLevels") =>
    \A k \in 1..Len(ret.out.support \o ret.out.resistance \o ret.out.keyLevels) :
      (ret.out.support \o ret.out.resistance \o ret.out.keyLevels)[k].touches
        >= minTouchCount

\* clustering the means again gives one cluster per mean, holding that mean
sameClusters ==
  /\ Len(ret.second) = Len(ret.means)
  /\ \A k \in 1..Len(ret.means) :
       /\ ret.second[k].points = <<ret.means[k]>>
       /\ ret.second[k].avgPrice = ret.means[k].price

monotone(prices) ==
  \/ \A i \in 2..Len(prices) : RLeq(prices[i - 1], prices[i])
  \/ \A i \in 2..Len(prices) : RLeq(prices[i], prices[i - 1])

\* C8 (as claimed): clusterPivotPoints is idempotent on its own output:
\* clustering one pivot per cluster, priced at the cluster's mean, gives one
\* single-point cluster per mean
C8_ClusteringIdempotent ==
  called("clusterPivotPoints") => sameClusters

\* C8 (amended): when the pivots' prices arrive in monotone order
\* (non-decreasing or non-increasing), clustering one pivot per cluster priced
\* at the cluster's mean gives one single-point cluster per mean
C8_ClusteringIdempotentOnMonotone ==
  (called("clusterPivotPoints") /\ monotone(pricesOf(ret.pivots)))
  => sameClusters

C8_Witness ==
  /\ called("clusterPivotPoints")
  /\ monotone(pricesOf(ret.pivots))
  /\ Len(ret.pivots) = 3
  /\ Len(ret.first) = 2
  /\ Len(ret.first[1].points) = 2
  /\ sameClusters

\* C9: calculateLevelStrength is monotone in touches: of two levels that
\* differ in touches only, the one with no fewer touches gets no less strength
C9_StrengthMonotoneInTouches ==
  (called("calculateLevelStrength")
   /\ ret.levels[1].touches <= ret.levels[2].touches)
  => ret.out[1].strength <= ret.out[2].strength

C9_Witness ==
  /\ called("calculateLevelStrength")
  /\ ret.levels[1].touches < ret.levels[2].touches
  /\ ret.out[1].strength < ret.out[2].strength

\* the step the magnitude of a close c selects, c and step in hundredths:
\* 0.01 below 1, 0.1 below 10, 1 below 100, 10 below 1000, otherwise 100
stepOfClose(c) ==
  IF c < 100 THEN 1
  ELSE IF c < 1000 THEN 10
  ELSE IF c < 10000 THEN 100
  ELSE IF c < 100000 THEN 1000
  ELSE 10000

\* C10 (as claimed): the step of the round numbers is selected by the
\* magnitude of the latest close c: 0.01 if c < 1, 0.1 if c < 10, 1 if
\* c < 100, 10 if c < 1000, otherwise 100
C10_StepByMagnitudeOfClose ==
  called("findPsychologicalLevels") /\ data # <<>> =>
    ret.step = stepOfClose(ret.currentPrice)


\* the scenario's swings X, A, B, C, D: 100, 200, 137.9, 111.8, 160
gartleyScenario == <<10000, 20000, 13790, 11180, 16000>>

legOf(swings, k) == RInt(Abs(swings[k + 1].value - swings[k].value))

\* C11 (as claimed): isGartleyPattern returns true on the swings 100, 200,
\* 137.9, 111.8, 160
C11_GartleyScenarioAccepted ==
  (called("isGartleyPattern") /\ valuesOf(ret.swings) = gartleyScenario)
  => ret.out = TRUE

\* C11 (amended): on the swings 100, 200, 137.9, 111.8, 160 AB/XA lies in
\* [0.58, 0.68] and BC/AB lies in [0.38, 0.48], but CD/BC = 48.2/26.1 lies
\* above 1.35, and isGartleyPattern returns false
C11_GartleyScenarioRejected ==
  (called("isGartleyPattern") /\ valuesOf(ret.swings) = gartleyScenario)
  => /\ RatioIn(legOf(ret.swings, 2), legOf(ret.swings, 1),
                 Rat(58, 100), Rat(68, 100))
     /\ RatioIn(legOf(ret.swings, 3), legOf(ret.swings, 2),
                 Rat(38, 100), Rat(48, 100))
     /\ RLt(Rat(135, 100), RDiv(legOf(ret.swings, 4), legOf(ret.swings, 3)))
     /\ ret.out = FALSE

C11_Witness ==
  /\ called("isGartleyPattern")
  /\ valuesOf(ret.swings) = gartleyScenario
  /\ ret.out = FALSE


\* the scenario's swings: low 100, high 150, low 120, high 180, low 140
impulseScenario ==
  /\ called("identifyWaveStructure")
  /\ [k \in 1..Len(ret.swings) |-> <<ret.swings[k].type, ret.swings[k].price>>]
       = <<<<"low", RInt(10000)>>, <<"high", RInt(15000)>>,
           <<"low", RInt(12000)>>, <<"high", RInt(18000)>>,
           <<"low", RInt(14000)>>>>

\* C12: on the swings low 100, high 150, low 120, high 180, low 140
\* identifyWaveStructure selects a bullish impulse; its confidence and the
\* confidence calculateWaveConfidence reports are at least 60, and every
\* corrective candidate of the same swings has a lower confidence
C12_ImpulseScenarioBullish ==
  impulseScenario =>
    /\ ret.out # NULL
    /\ ret.out.type = "impulse"
    /\ ret.out.direction = "bullish"
    /\ ret.out.confidence >= 60
    /\ ret.confidence >= 60
    /\ \A k \in 1..Len(ret.candidates) :
         ret.candidates[k].type = "corrective"
           => ret.candidates[k].confidence < ret.out.confidence

C12_Witness ==
  /\ impulseScenario
  /\ ret.out # NULL
  /\ ret.out.type = "impulse"
  /\ ret.out.confidence = 80
  /\ ret.confidence = 90


\* candle i of the series (counted from 0) has a range that meets [low, high]
meets(i, low, high) == At(data, i).low <= high /\ At(data, i).high >= low

\* C13 (as claimed): an order block analyze returns is tested if and only if
\* the range of some candle after the block's candle meets the block's
\* [low, high]
C13_TestedIffRevisited ==
  returned("analyze") =>
    \A k \in 1..Len(ret.out.orderBlocks) :
      LET ob == ret.out.orderBlocks[k]
      IN  ob.tested <=> \E i \in (ob.index + 1)..(Len(data) - 1) :
                          meets(i, ob.low, ob.high)

\* C14 (as claimed): a fair value gap analyze returns is filled only if the
\* range of some candle after the three forming candles meets the gap's
\* [low, high]
C14_FilledOnlyIfRevisited ==
  returned("analyze") =>
    \A k \in 1..Len(ret.out.fairValueGaps) :
      LET fvg == ret.out.fairValueGaps[k]
      IN  fvg.filled => \E i \in (fvg.index + 2)..(Len(data) - 1) :
                          meets(i, fvg.low, fvg.high)


\* the bias of an analysis with no break of structure, change of character
\* or fair value gap, when each of the last 3 untested order blocks counts 10
biasOfUntested(analysis) ==
  LET untested == SelectSeq(analysis.orderBlocks, LAMBDA ob : ~ob.tested)
      recent == Last(untested, 3)
      score(side) ==
        (IF analysis.marketStructure.trend = side THEN 30 ELSE 0)
        + 10 * Cardinality({k \in 1..Len(recent) : recent[k].type = side})
  IN  IF score("bullish") > score("bearish") + 10 THEN "bullish"
      ELSE IF score("bearish") > score("bullish") + 10 THEN "bearish"
      ELSE "neutral"

\* C15 (as claimed): determineBias scores 10 for each of the last three
\* untested order blocks, whatever tested blocks follow them in the list, and
\* returns the bias of these scores
C15_LastThreeUntestedCount ==
  called("determineBias") => ret.out = biasOfUntested(ret.analysis)


\* C16 (as claimed): for a long signal and a support level priced below the
\* current close, stopLoss is at most 0.995 times that level's price and
\* below entry, and riskReward is a finite number
C16_LongStopBelowSupport ==
  (called("calculateTradingLevels") /\ ret.signal = "long") =>
    \A k \in 1..Len(ret.support) :
      RLt(ret.support[k].price, RInt(ret.currentPrice)) =>
        /\ RLeq(ret.out.stopLoss, RMul(Rat(995, 1000), ret.support[k].price))
        /\ RLt(ret.out.stopLoss, ret.out.entry)
        /\ ret.out.riskReward.d # 0


\* C17 (as claimed): each of the six recognizers detectPatterns calls
\* returns at most one pattern
C17_OnePatternPerRecognizer ==
  called("detectPatterns") =>
    \A k \in 1..Len(ret.found) : Len(ret.found[k]) <= 1


\* the volume levels among the key levels findLevels returned
volumeLevels == SelectSeq(ret.out.keyLevels, LAMBDA level : level.type = "volume")

\* C18 (as claimed): when the 50 bins of the volume profile hold pairwise
\* different volumes, findVolumeLevels returns at most 5 levels, and every
\* returned bin has a larger volume than every bin not returned
C18_TopTenthOfBins ==
  returned("findLevels") =>
    \A profile \in {calculateVolumeProfile(data)} :
      (\A i, j \in 1..bins : i # j => profile[i].volume # profile[j].volume)
      => /\ Len(volumeLevels) <= 5
         /\ \A k \in 1..Len(volumeLevels), b \in 1..bins :
              (\A m \in 1..Len(volumeLevels) :
                 volumeLevels[m].price # profile[b].price)
              => RLt(profile[b].volume, volumeLevels[k].volume)

\* C19: every level findPsychologicalLevels returns has a price p with
\* 0.8 * c <= p <= 1.2 * c, where c is the close of the last candle
C19_WithinTwentyPercent ==
  called("findPsychologicalLevels") /\ data # <<>> =>
    \A k \in 1..Len(ret.out) :
      /\ RLeq(RMul(RInt(ret.currentPrice), Rat(8, 10)), ret.out[k].price)
      /\ RLeq(ret.out[k].price, RMul(RInt(ret.currentPrice), Rat(12, 10)))

\* C20: clusterPivotPoints takes the pivots in input order; a pivot joins the
\* earliest-created cluster whose avgPrice at that moment has
\* |price - avgPrice| / avgPrice <= 0.005, or else founds a new cluster of its
\* own; the joined cluster's avgPrice is then the mean of all its members
C20_GreedyEarliestClusterByMean ==
  called("clusterPivotPoints") =>
    /\ ret.first = IF ret.pivots = <<>> THEN <<>> ELSE ret.steps[Len(ret.pivots)]
    /\ \A i \in 1..Len(ret.pivots) :
         LET before == IF i = 1 THEN <<>> ELSE ret.steps[i - 1]
             after == ret.steps[i]
             pivot == ret.pivots[i]
             within(k) ==
               /\ RLeq(RSub(pivot.price, before[k].avgPrice),
                       RMul(before[k].avgPrice, Rat(5, 1000)))
               /\ RLeq(RSub(before[k].avgPrice, pivot.price),
                       RMul(before[k].avgPrice, Rat(5, 1000)))
             fit == {k \in 1..Len(before) : within(k)}
         IN  IF fit = {}
             THEN after = Append(before, [avgPrice |-> pivot.price,
                                          points |-> <<pivot>>])
             ELSE \E k \in fit :
                    /\ \A j \in fit : k <= j
                    /\ Len(after) = Len(before)
                    /\ \A j \in 1..Len(before) : j # k => after[j] = before[j]
                    /\ after[k].points = Append(before[k].points, pivot)
                    /\ RMul(after[k].avgPrice, RInt(Len(after[k].points))).n
                         * RSumOf(pricesOf(after[k].points)).d
                       = RSumOf(pricesOf(after[k].points)).n
                         * RMul(after[k].avgPrice, RInt(Len(after[k].points))).d

\* the pivot lows 10.00, 10.04, 10.08, 10.06: the last one is within the
\* tolerance of the first cluster's mean 10.02, outside the tolerance of its
\* founding price 10.00, and nearer to the second cluster {10.08}; it joins
\* the first cluster
C20_Witness ==
  /\ called("clusterPivotPoints")
  /\ pricesOf(ret.pivots) = <<RInt(1000), RInt(1004), RInt(1008), RInt(1006)>>
  /\ Len(ret.steps[3]) = 2
  /\ pricesOf(ret.steps[3][1].points) = <<RInt(1000), RInt(1004)>>
  /\ pricesOf(ret.steps[3][2].points) = <<RInt(1008)>>
  /\ ~RelDiffLeq(RInt(1006), RInt(1000), Rat(5, 1000))
  /\ RelDiffLeq(RInt(1006), ret.steps[3][2].avgPrice, Rat(5, 1000))
  /\ Len(ret.first) = 2
  /\ pricesOf(ret.first[1].points) = <<RInt(1000), RInt(1004), RInt(1006)>>

\* C21: the list filterSignificantSwings returns alternates in kind: no two
\* adjacent kept swings have the same type, every window of 5 of them passes
\* the impulse alternation test and every window of 3 the corrective one
C21_KeptSwingsAlternate ==
  called("filterSignificantSwings") =>
    /\ \A k \in 1..(Len(ret.out) - 1) : ret.out[k].type # ret.out[k + 1].type
    /\ \A k \in 1..(Len(ret.out) - 4) :
         DOMAIN analyzeImpulseWave(SubSeq(ret.out, k, k + 4)) # {"isValid"}
    /\ \A k \in 1..(Len(ret.out) - 2) :
         DOMAIN analyzeCorrectiveWave(SubSeq(ret.out, k, k + 2)) # {"isValid"}

\* six swings, two adjacent ones of the same kind, of which five are kept
C21_Witness ==
  /\ called("filterSignificantSwings")
  /\ Len(ret.swings) = 6
  /\ \E k \in 1..5 : ret.swings[k].type = ret.swings[k + 1].type
  /\ Len(ret.out) = 5
  /\ DOMAIN analyzeImpulseWave(ret.out) # {"isValid"}

\* C22: every two adjacent swings of the list filterSignificantSwings returns
\* differ in price by at least 2% of the earlier one's price, also after a
\* kept swing was replaced by a more extreme one of its kind
C22_KeptSwingsTwoPercentApart ==
  called("filterSignificantSwings") =>
    \A k \in 1..(Len(ret.out) - 1) :
      RLeq(RMul(ret.out[k].price, Rat(2, 100)),
           RAbs(RSub(ret.out[k + 1].price, ret.out[k].price)))

\* the move from swing k to swing k + 1 as validateElliottRules measures it:
\* upwards for a bullish structure, downwards for a bearish one; its
\* wave1Length is the move from swing 1, wave3Length the one from swing 3 and
\* wave5Length the one from swing 4
waveLength(k) ==
  IF ret.direction = "bullish"
  THEN RSub(ret.waves[k + 1].price, ret.waves[k].price)
  ELSE RSub(ret.waves[k].price, ret.waves[k + 1].price)

\* C23: validateElliottRules gives the 20 of 'Wave 3 is not shortest' exactly
\* when the length of wave 3 is not the smallest of the lengths of waves 1, 3
\* and 5, so also when wave 1 is longer than wave 3 and wave 5 is shorter
C23_WaveThreeNotShortest ==
  called("validateElliottRules") =>
    ("Wave 3 is not shortest" \in Range(ret.out.details)
     <=> ~(RLt(waveLength(3), waveLength(1)) /\ RLt(waveLength(3), waveLength(4))))

\* C24: analyzeCorrectiveWave scores 20 for the alternation, 20 for a C/A
\* ratio near 1 or 1.618 and 15 for a retracement of wave A by wave B near
\* 0.5, 0.618 or 0.786, a retracement that depends on the swings' prices: for
\* some alternating swings the 15 is earned, so that the confidence 35 and
\* the confidence 55 both occur
C24_RetracementBonusEarned ==
  called("analyzeCorrectiveWave") =>
    /\ \A w \in DOMAIN ret.out : ret.out[w].confidence \in {20, 35, 40, 55}
    /\ \E w \in DOMAIN ret.out : ret.out[w].confidence = 35
    /\ \E w \in DOMAIN ret.out : ret.out[w].confidence = 55

\* C25: for every Symmetrical Triangle detectTrianglePatterns emits, the
\* target lies on the side of the entry the direction names: target >= entry
\* when the direction is long, target <= entry when it is short
C25_SymmetricalTargetOnDirectionSide ==
  called("detectPatterns") /\ data # <<>> =>
    \A k \in 1..Len(ret.found[1]) :
      ret.found[1][k].name = "Symmetrical Triangle" =>
        /\ ret.found[1][k].direction = "long"
             => RLeq(ret.found[1][k].entry, ret.found[1][k].target)
        /\ ret.found[1][k].direction = "short"
             => RLeq(ret.found[1][k].target, ret.found[1][k].entry)

indicesOf(points) == {points[k].index : k \in 1..Len(points)}

\* C26: the pivot test (no other candle of the window has a higher high, or a
\* lower low) and the swing test (the candle's high is the window's maximum,
\* or its low the minimum) select the same candles: findPivotPoints(data).highs
\* and findSwingHighs(data, 5) have the same indices, and so have
\* findPivotPoints(data).lows and findSwingLows(data, 5)
C26_PivotsAreSwings ==
  called("findSwings") =>
    /\ indicesOf(ret.pivots.highs) = indicesOf(ret.highs)
    /\ indicesOf(ret.pivots.lows) = indicesOf(ret.lows)

\* a series where some windows hold their extreme twice and where some
\* candles are selected and others are not
C26_Witness ==
  /\ called("findSwings")
  /\ indicesOf(ret.highs) \notin {{}, Centers(data)}
  /\ indicesOf(ret.lows) \notin {{}, Centers(data)}
  /\ \E i \in indicesOf(ret.highs), j \in Centers(data) :
       i # j /\ Abs(i - j) <= lookback /\ At(data, i).high = At(data, j).high
  /\ \E i \in indicesOf(ret.lows), j \in Centers(data) :
       i # j /\ Abs(i - j) <= lookback /\ At(data, i).low = At(data, j).low

\* C27: in a result of analyzeMarketStructure a changeOfCharacter that is not
\* null comes with a breakOfStructure that is not null, and a bullish
\* changeOfCharacter with a bullish breakOfStructure
C27_ChangeOfCharacterWithBreak ==
  called("analyzeMarketStructure") =>
    /\ ret.changeOfCharacter # NULL => ret.breakOfStructure # NULL
    /\ (ret.changeOfCharacter # NULL /\ ret.changeOfCharacter.type = "bullish")
         => ret.breakOfStructure.type = "bullish"

\* a bullish change of character while the close is also below the last
\* swing low
C27_Witness ==
  /\ called("analyzeMarketStructure")
  /\ ret.changeOfCharacter # NULL
  /\ ret.changeOfCharacter.type = "bullish"
  /\ ret.breakOfStructure.type = "bullish"
  /\ ret.currentPrice < ret.swingLows[Len(ret.swingLows)].price.n

\* C28: when analyzeWave returns isValid = true (a final confidence of 60 or
\* more on 5 or more swings), the selected structure is an impulse of exactly
\* 5 waves: no corrective candidate's final confidence reaches 60, and a valid
\* impulse candidate outranks every corrective candidate
C28_ValidMeansImpulse ==
  (called("identifyWaveStructure") /\ Len(ret.swings) >= 5) =>
    /\ ret.confidence >= 60
         => /\ ret.out # NULL
            /\ ret.out.type = "impulse"
            /\ Len(ret.out.waves) = 5
    /\ \A k \in 1..Len(ret.candidates) :
         ret.candidates[k].type = "corrective"
         => /\ calculateWaveConfidence(ret.candidates[k]) < 60
            /\ \A j \in 1..Len(ret.candidates) :
                 ret.candidates[j].type = "impulse"
                 => /\ ret.candidates[k].confidence < ret.candidates[j].confidence
                    /\ ret.out.type = "impulse"

\* a valid result whose candidates include a corrective one
C28_Witness ==
  /\ called("identifyWaveStructure")
  /\ Len(ret.swings) >= 5
  /\ ret.confidence >= 60
  /\ ret.out.type = "impulse"
  /\ \E k \in 1..Len(ret.candidates) : ret.candidates[k].type = "corrective"

\* the entries logged since the running or the last call of startScanning
\* began
loggedSinceStart(message) ==
  \E k \in 1..Len(app.logs) :
    /\ app.logs[k].message = message
    /\ app.logs[k].timestamp >= app.call.started

\* C29: when startScanning was invoked while scanning was false, got n >= 1
\* symbols and stopScanning was not invoked, analyzeSymbol has been called
\* once for each symbol, in list order, by the time 'Scan completed' is
\* logged and scanning is set back to false
C29_EverySymbolAnalyzed ==
  (/\ app.call.pc = "done"
   /\ loggedSinceStart("Scan completed")
   /\ ~loggedSinceStart("Scan stopped by user")
   /\ Len(app.call.symbols) >= 1)
  => app.call.analyzed = app.call.symbols

\* C30: the log holds at most 100 entries, newest first, and one more addLog
\* on a log of 100 entries drops the oldest entry and keeps the other 99 in
\* their order
C30_LogKeepsNewestHundred ==
  /\ [](/\ Len(app.logs) <= 100
        /\ \A k \in 1..(Len(app.logs) - 1) :
             app.logs[k].timestamp > app.logs[k + 1].timestamp)
  /\ [][(Len(app.logs) = 100 /\ app.logs' # app.logs)
         => /\ Len(app.logs') = 100
            /\ app.logs'[1].timestamp = app.clock
            /\ SubSeq(app.logs', 2, 100) = SubSeq(app.logs, 1, 99)]_vars

\* a log of 100 entries of which the oldest has been dropped
C30_Witness ==
  /\ Len(app.logs) = 100
  /\ app.logs[100].timestamp = 1
  /\ app.logs[1].timestamp = 100

====
